---------------------------- MODULE Spec2Model ----------------------------
(***************************************************************************)
(* Model of the two inference cores of the sheet-structure scripts:        *)
(*   - detect_pattern      (src/execution/extract_sheet_structure.py)      *)
(*   - analyze_formula_ranges and the formula-flow look-ahead of           *)
(*     analyze_column_types (src/execution/analyze_sheet_structure.py)     *)
(*   - normalize_formula   (src/execution/analyze_sheet_structure.py)      *)
(*                                                                         *)
(* Representation.  A Python str is a sequence of characters, one string   *)
(* for each ("Q1" is <<"Q","1">>, "" is <<>>): a printable ASCII character *)
(* is itself and any other character is named by its code point ("U+000B"  *)
(* is the vertical tab, "U+0662" ARABIC-INDIC DIGIT TWO).  None is Null.   *)
(* A Python dict is a record whose DOMAIN is the set of keys present, so   *)
(* an absent key is an absent field.  A raised exception is the record     *)
(* [raised |-> name].                                                      *)
(***************************************************************************)
EXTENDS Integers, Sequences, FiniteSets, TLC

VARIABLES
    values,         \* detect_pattern: the argument of the call
    result,         \* detect_pattern: the returned dict (or the exception)
    dpc,            \* detect_pattern: "call" before the call, "done" after
    row_data,       \* analyze_column_types: rowData of the first grid
    col_idx,        \* the column being analysed
    start_row,      \* first scanned row (0-based)
    ranges,         \* the list analyze_formula_ranges returned
    formula_flow,   \* analyze_column_types: column_info['formula_flow'],
                    \* <<>> while the key is absent
    fpc,            \* formula analysis: "idle", "scan", "flow", "done";
                    \* inside analyze_formula_ranges: "loop", "returned"
    row_idx,        \* analyze_formula_ranges: the loop variable
    current_range,  \* analyze_formula_ranges: the open range, or None
    formula_text,   \* normalize_formula: the argument of the first call
    signature,      \* normalize_formula: the string the last call returned
    nruns           \* normalize_formula: calls made (-1: none to be made)

vars == <<values, result, dpc, row_data, col_idx, start_row, ranges,
          formula_flow, fpc, row_idx, current_range, formula_text, signature,
          nruns>>

detectVars  == <<values, result, dpc>>
formulaVars == <<row_data, col_idx, start_row, ranges, formula_flow, fpc,
                 row_idx, current_range>>
normalizeVars == <<formula_text, signature, nruns>>

----------------------------------------------------------------------------
(* Strings *)

Null == <<"None">>

\* the characters \d of re matches in a str pattern: the decimal digits of
\* every script (Unicode 14.0, category Nd)
Digits ==
    {"0", "1", "2", "3", "4", "5", "6", "7", "8", "9", "U+0660", "U+0661",
     "U+0662", "U+0663", "U+0664", "U+0665", "U+0666", "U+0667", "U+0668",
     "U+0669", "U+06F0", "U+06F1", "U+06F2", "U+06F3", "U+06F4", "U+06F5",
     "U+06F6", "U+06F7", "U+06F8", "U+06F9", "U+07C0", "U+07C1", "U+07C2",
     "U+07C3", "U+07C4", "U+07C5", "U+07C6", "U+07C7", "U+07C8", "U+07C9",
     "U+0966", "U+0967", "U+0968", "U+0969", "U+096A", "U+096B", "U+096C",
     "U+096D", "U+096E", "U+096F", "U+09E6", "U+09E7", "U+09E8", "U+09E9",
     "U+09EA", "U+09EB", "U+09EC", "U+09ED", "U+09EE", "U+09EF", "U+0A66",
     "U+0A67", "U+0A68", "U+0A69", "U+0A6A", "U+0A6B", "U+0A6C", "U+0A6D",
     "U+0A6E", "U+0A6F", "U+0AE6", "U+0AE7", "U+0AE8", "U+0AE9", "U+0AEA",
     "U+0AEB", "U+0AEC", "U+0AED", "U+0AEE", "U+0AEF", "U+0B66", "U+0B67",
     "U+0B68", "U+0B69", "U+0B6A", "U+0B6B", "U+0B6C", "U+0B6D", "U+0B6E",
     "U+0B6F", "U+0BE6", "U+0BE7", "U+0BE8", "U+0BE9", "U+0BEA", "U+0BEB",
     "U+0BEC", "U+0BED", "U+0BEE", "U+0BEF", "U+0C66", "U+0C67", "U+0C68",
     "U+0C69", "U+0C6A", "U+0C6B", "U+0C6C", "U+0C6D", "U+0C6E", "U+0C6F",
     "U+0CE6", "U+0CE7", "U+0CE8", "U+0CE9", "U+0CEA", "U+0CEB", "U+0CEC",
     "U+0CED", "U+0CEE", "U+0CEF", "U+0D66", "U+0D67", "U+0D68", "U+0D69",
     "U+0D6A", "U+0D6B", "U+0D6C", "U+0D6D", "U+0D6E", "U+0D6F", "U+0DE6",
     "U+0DE7", "U+0DE8", "U+0DE9", "U+0DEA", "U+0DEB", "U+0DEC", "U+0DED",
     "U+0DEE", "U+0DEF", "U+0E50", "U+0E51", "U+0E52", "U+0E53", "U+0E54",
     "U+0E55", "U+0E56", "U+0E57", "U+0E58", "U+0E59", "U+0ED0", "U+0ED1",
     "U+0ED2", "U+0ED3", "U+0ED4", "U+0ED5", "U+0ED6", "U+0ED7", "U+0ED8",
     "U+0ED9", "U+0F20", "U+0F21", "U+0F22", "U+0F23", "U+0F24", "U+0F25",
     "U+0F26", "U+0F27", "U+0F28", "U+0F29", "U+1040", "U+1041", "U+1042",
     "U+1043", "U+1044", "U+1045", "U+1046", "U+1047", "U+1048", "U+1049",
     "U+1090", "U+1091", "U+1092", "U+1093", "U+1094", "U+1095", "U+1096",
     "U+1097", "U+1098", "U+1099", "U+17E0", "U+17E1", "U+17E2", "U+17E3",
     "U+17E4", "U+17E5", "U+17E6", "U+17E7", "U+17E8", "U+17E9", "U+1810",
     "U+1811", "U+1812", "U+1813", "U+1814", "U+1815", "U+1816", "U+1817",
     "U+1818", "U+1819", "U+1946", "U+1947", "U+1948", "U+1949", "U+194A",
     "U+194B", "U+194C", "U+194D", "U+194E", "U+194F", "U+19D0", "U+19D1",
     "U+19D2", "U+19D3", "U+19D4", "U+19D5", "U+19D6", "U+19D7", "U+19D8",
     "U+19D9", "U+1A80", "U+1A81", "U+1A82", "U+1A83", "U+1A84", "U+1A85",
     "U+1A86", "U+1A87", "U+1A88", "U+1A89", "U+1A90", "U+1A91", "U+1A92",
     "U+1A93", "U+1A94", "U+1A95", "U+1A96", "U+1A97", "U+1A98", "U+1A99",
     "U+1B50", "U+1B51", "U+1B52", "U+1B53", "U+1B54", "U+1B55", "U+1B56",
     "U+1B57", "U+1B58", "U+1B59", "U+1BB0", "U+1BB1", "U+1BB2", "U+1BB3",
     "U+1BB4", "U+1BB5", "U+1BB6", "U+1BB7", "U+1BB8", "U+1BB9", "U+1C40",
     "U+1C41", "U+1C42", "U+1C43", "U+1C44", "U+1C45", "U+1C46", "U+1C47",
     "U+1C48", "U+1C49", "U+1C50", "U+1C51", "U+1C52", "U+1C53", "U+1C54",
     "U+1C55", "U+1C56", "U+1C57", "U+1C58", "U+1C59", "U+A620", "U+A621",
     "U+A622", "U+A623", "U+A624", "U+A625", "U+A626", "U+A627", "U+A628",
     "U+A629", "U+A8D0", "U+A8D1", "U+A8D2", "U+A8D3", "U+A8D4", "U+A8D5",
     "U+A8D6", "U+A8D7", "U+A8D8", "U+A8D9", "U+A900", "U+A901", "U+A902",
     "U+A903", "U+A904", "U+A905", "U+A906", "U+A907", "U+A908", "U+A909",
     "U+A9D0", "U+A9D1", "U+A9D2", "U+A9D3", "U+A9D4", "U+A9D5", "U+A9D6",
     "U+A9D7", "U+A9D8", "U+A9D9", "U+A9F0", "U+A9F1", "U+A9F2", "U+A9F3",
     "U+A9F4", "U+A9F5", "U+A9F6", "U+A9F7", "U+A9F8", "U+A9F9", "U+AA50",
     "U+AA51", "U+AA52", "U+AA53", "U+AA54", "U+AA55", "U+AA56", "U+AA57",
     "U+AA58", "U+AA59", "U+ABF0", "U+ABF1", "U+ABF2", "U+ABF3", "U+ABF4",
     "U+ABF5", "U+ABF6", "U+ABF7", "U+ABF8", "U+ABF9", "U+FF10", "U+FF11",
     "U+FF12", "U+FF13", "U+FF14", "U+FF15", "U+FF16", "U+FF17", "U+FF18",
     "U+FF19", "U+104A0", "U+104A1", "U+104A2", "U+104A3", "U+104A4",
     "U+104A5", "U+104A6", "U+104A7", "U+104A8", "U+104A9", "U+10D30",
     "U+10D31", "U+10D32", "U+10D33", "U+10D34", "U+10D35", "U+10D36",
     "U+10D37", "U+10D38", "U+10D39", "U+11066", "U+11067", "U+11068",
     "U+11069", "U+1106A", "U+1106B", "U+1106C", "U+1106D", "U+1106E",
     "U+1106F", "U+110F0", "U+110F1", "U+110F2", "U+110F3", "U+110F4",
     "U+110F5", "U+110F6", "U+110F7", "U+110F8", "U+110F9", "U+11136",
     "U+11137", "U+11138", "U+11139", "U+1113A", "U+1113B", "U+1113C",
     "U+1113D", "U+1113E", "U+1113F", "U+111D0", "U+111D1", "U+111D2",
     "U+111D3", "U+111D4", "U+111D5", "U+111D6", "U+111D7", "U+111D8",
     "U+111D9", "U+112F0", "U+112F1", "U+112F2", "U+112F3", "U+112F4",
     "U+112F5", "U+112F6", "U+112F7", "U+112F8", "U+112F9", "U+11450",
     "U+11451", "U+11452", "U+11453", "U+11454", "U+11455", "U+11456",
     "U+11457", "U+11458", "U+11459", "U+114D0", "U+114D1", "U+114D2",
     "U+114D3", "U+114D4", "U+114D5", "U+114D6", "U+114D7", "U+114D8",
     "U+114D9", "U+11650", "U+11651", "U+11652", "U+11653", "U+11654",
     "U+11655", "U+11656", "U+11657", "U+11658", "U+11659", "U+116C0",
     "U+116C1", "U+116C2", "U+116C3", "U+116C4", "U+116C5", "U+116C6",
     "U+116C7", "U+116C8", "U+116C9", "U+11730", "U+11731", "U+11732",
     "U+11733", "U+11734", "U+11735", "U+11736", "U+11737", "U+11738",
     "U+11739", "U+118E0", "U+118E1", "U+118E2", "U+118E3", "U+118E4",
     "U+118E5", "U+118E6", "U+118E7", "U+118E8", "U+118E9", "U+11950",
     "U+11951", "U+11952", "U+11953", "U+11954", "U+11955", "U+11956",
     "U+11957", "U+11958", "U+11959", "U+11C50", "U+11C51", "U+11C52",
     "U+11C53", "U+11C54", "U+11C55", "U+11C56", "U+11C57", "U+11C58",
     "U+11C59", "U+11D50", "U+11D51", "U+11D52", "U+11D53", "U+11D54",
     "U+11D55", "U+11D56", "U+11D57", "U+11D58", "U+11D59", "U+11DA0",
     "U+11DA1", "U+11DA2", "U+11DA3", "U+11DA4", "U+11DA5", "U+11DA6",
     "U+11DA7", "U+11DA8", "U+11DA9", "U+16A60", "U+16A61", "U+16A62",
     "U+16A63", "U+16A64", "U+16A65", "U+16A66", "U+16A67", "U+16A68",
     "U+16A69", "U+16AC0", "U+16AC1", "U+16AC2", "U+16AC3", "U+16AC4",
     "U+16AC5", "U+16AC6", "U+16AC7", "U+16AC8", "U+16AC9", "U+16B50",
     "U+16B51", "U+16B52", "U+16B53", "U+16B54", "U+16B55", "U+16B56",
     "U+16B57", "U+16B58", "U+16B59", "U+1D7CE", "U+1D7CF", "U+1D7D0",
     "U+1D7D1", "U+1D7D2", "U+1D7D3", "U+1D7D4", "U+1D7D5", "U+1D7D6",
     "U+1D7D7", "U+1D7D8", "U+1D7D9", "U+1D7DA", "U+1D7DB", "U+1D7DC",
     "U+1D7DD", "U+1D7DE", "U+1D7DF", "U+1D7E0", "U+1D7E1", "U+1D7E2",
     "U+1D7E3", "U+1D7E4", "U+1D7E5", "U+1D7E6", "U+1D7E7", "U+1D7E8",
     "U+1D7E9", "U+1D7EA", "U+1D7EB", "U+1D7EC", "U+1D7ED", "U+1D7EE",
     "U+1D7EF", "U+1D7F0", "U+1D7F1", "U+1D7F2", "U+1D7F3", "U+1D7F4",
     "U+1D7F5", "U+1D7F6", "U+1D7F7", "U+1D7F8", "U+1D7F9", "U+1D7FA",
     "U+1D7FB", "U+1D7FC", "U+1D7FD", "U+1D7FE", "U+1D7FF", "U+1E140",
     "U+1E141", "U+1E142", "U+1E143", "U+1E144", "U+1E145", "U+1E146",
     "U+1E147", "U+1E148", "U+1E149", "U+1E2F0", "U+1E2F1", "U+1E2F2",
     "U+1E2F3", "U+1E2F4", "U+1E2F5", "U+1E2F6", "U+1E2F7", "U+1E2F8",
     "U+1E2F9", "U+1E950", "U+1E951", "U+1E952", "U+1E953", "U+1E954",
     "U+1E955", "U+1E956", "U+1E957", "U+1E958", "U+1E959", "U+1FBF0",
     "U+1FBF1", "U+1FBF2", "U+1FBF3", "U+1FBF4", "U+1FBF5", "U+1FBF6",
     "U+1FBF7", "U+1FBF8", "U+1FBF9"}

\* the characters of str.isdigit() that \d does not match: superscripts,
\* circled digits and the like
OtherDigits ==
    {"U+00B2", "U+00B3", "U+00B9", "U+1369", "U+136A", "U+136B", "U+136C",
     "U+136D", "U+136E", "U+136F", "U+1370", "U+1371", "U+19DA", "U+2070",
     "U+2074", "U+2075", "U+2076", "U+2077", "U+2078", "U+2079", "U+2080",
     "U+2081", "U+2082", "U+2083", "U+2084", "U+2085", "U+2086", "U+2087",
     "U+2088", "U+2089", "U+2460", "U+2461", "U+2462", "U+2463", "U+2464",
     "U+2465", "U+2466", "U+2467", "U+2468", "U+2474", "U+2475", "U+2476",
     "U+2477", "U+2478", "U+2479", "U+247A", "U+247B", "U+247C", "U+2488",
     "U+2489", "U+248A", "U+248B", "U+248C", "U+248D", "U+248E", "U+248F",
     "U+2490", "U+24EA", "U+24F5", "U+24F6", "U+24F7", "U+24F8", "U+24F9",
     "U+24FA", "U+24FB", "U+24FC", "U+24FD", "U+24FF", "U+2776", "U+2777",
     "U+2778", "U+2779", "U+277A", "U+277B", "U+277C", "U+277D", "U+277E",
     "U+2780", "U+2781", "U+2782", "U+2783", "U+2784", "U+2785", "U+2786",
     "U+2787", "U+2788", "U+278A", "U+278B", "U+278C", "U+278D", "U+278E",
     "U+278F", "U+2790", "U+2791", "U+2792", "U+10A40", "U+10A41", "U+10A42",
     "U+10A43", "U+10E60", "U+10E61", "U+10E62", "U+10E63", "U+10E64",
     "U+10E65", "U+10E66", "U+10E67", "U+10E68", "U+11052", "U+11053",
     "U+11054", "U+11055", "U+11056", "U+11057", "U+11058", "U+11059",
     "U+1105A", "U+1F100", "U+1F101", "U+1F102", "U+1F103", "U+1F104",
     "U+1F105", "U+1F106", "U+1F107", "U+1F108", "U+1F109", "U+1F10A"}

\* the characters c with c.isdigit()
IsDigit == Digits \cup OtherDigits

Upper == {"A", "B", "C", "D", "E", "F", "G", "H", "I", "J", "K", "L", "M",
          "N", "O", "P", "Q", "R", "S", "T", "U", "V", "W", "X", "Y", "Z"}

\* the characters str.split() treats as separators (str.isspace())
Whitespace ==
    {"\t", "\n", "U+000B", "\f", "\r", "U+001C", "U+001D", "U+001E", "U+001F",
     " ", "U+0085", "U+00A0", "U+1680", "U+2000", "U+2001", "U+2002",
     "U+2003", "U+2004", "U+2005", "U+2006", "U+2007", "U+2008", "U+2009",
     "U+200A", "U+2028", "U+2029", "U+202F", "U+205F", "U+3000"}

Min(a, b) == IF a <= b THEN a ELSE b

Chars(s) == {s[i] : i \in 1..Len(s)}

\* every character of s[from..to] is in class (to < from: vacuously true)
AllIn(s, from, to, class) == \A i \in from..to : s[i] \in class

\* Python truthiness of a value: None and "" are falsy
Truthy(v) == v # Null /\ v # <<>>

----------------------------------------------------------------------------
(* is_date *)

\* \d{1,2}<sep>\d{1,2}<sep>\d{4} over the whole of s
DayMonthYear(s, sep) ==
    \E a \in 1..2, b \in 1..2 :
        /\ Len(s) = a + b + 6
        /\ AllIn(s, 1, a, Digits)
        /\ s[a + 1] = sep
        /\ AllIn(s, a + 2, a + b + 1, Digits)
        /\ s[a + b + 2] = sep
        /\ AllIn(s, a + b + 3, a + b + 6, Digits)

\* \d{4}-\d{2}-\d{2} over the whole of s
YearMonthDay(s) ==
    /\ Len(s) = 10
    /\ AllIn(s, 1, 4, Digits)
    /\ s[5] = "-"
    /\ AllIn(s, 6, 7, Digits)
    /\ s[8] = "-"
    /\ AllIn(s, 9, 10, Digits)

date_patterns(s) ==
    DayMonthYear(s, "/") \/ YearMonthDay(s) \/ DayMonthYear(s, "-")

\* re.match(r'^...$'): '$' also matches just before one trailing newline
is_date(value) ==
    /\ Truthy(value)
    /\ \/ date_patterns(value)
       \/ /\ value[Len(value)] = "\n"
          /\ date_patterns(SubSeq(value, 1, Len(value) - 1))

----------------------------------------------------------------------------
(* detect_pattern *)

DateTag   == <<"<", "d", "a", "t", "e", ">">>
NumberTag == <<"<", "n", "u", "m", "b", "e", "r", ">">>

\* str(val).replace('.', '').replace('-', '')
StripDotDash(val) == SelectSeq(val, LAMBDA c : c \notin {".", "-"})

\* val and str(val).replace('.', '').replace('-', '').isdigit()
IsNumber(val) ==
    /\ Truthy(val)
    /\ Len(StripDotDash(val)) > 0
    /\ AllIn(StripDotDash(val), 1, Len(StripDotDash(val)), IsDigit)

\* a slip that would keep dates literal in a template
TemplateElemLiteralDate(val) == IF IsNumber(val) THEN NumberTag ELSE val

\* one element of a template
TemplateElem(val) ==
    IF is_date(val) THEN DateTag
    ELSE IF IsNumber(val) THEN NumberTag
    ELSE val

BlockTemplate(block) == [i \in 1..Len(block) |-> TemplateElem(block[i])]

\* non_empty = [v for v in values if v]
\* a slip that would drop only None and keep empty strings (if v is not
\* None)
NonEmptyNotNone(vals) == SelectSeq(vals, LAMBDA v : v # Null)

non_empty(vals) == SelectSeq(vals, Truthy)

\* the complete blocks of size block_size, in order
Blocks(ne, block_size) ==
    [k \in 1..(Len(ne) \div block_size) |->
        SubSeq(ne, (k - 1) * block_size + 1, k * block_size)]

\* a slip that would accept a block size when half of the blocks match
ThresholdHalf(matching_blocks, nblocks) == 10 * matching_blocks >= 5 * nblocks

\* a slip that would accept a block size when two thirds of the blocks
\* match
ThresholdTwoThirds(matching_blocks, nblocks) ==
    3 * matching_blocks >= 2 * nblocks

\* a slip that would accept a block size at 60%
ThresholdSixty(matching_blocks, nblocks) == 10 * matching_blocks >= 6 * nblocks

\* matching_blocks >= len(blocks) * 0.7.  The float 0.7 lies below 7/10 and
\* the product is rounded once, so it is 7n/10 or just below it when 7n/10
\* is an integer and far from every integer otherwise: for integers the
\* comparison is the exact one.
ThresholdMet(matching_blocks, nblocks) == 10 * matching_blocks >= 7 * nblocks

\* 0-based indices 1..len(blocks)-1 of the blocks whose template differs
BreakIndices(blocks, template) ==
    SelectSeq([k \in 1..(Len(blocks) - 1) |-> k],
              LAMBDA idx : BlockTemplate(blocks[idx + 1]) # template)

\* a slip that would number the blocks after the first from 0 (enumerate
\* without start=1)
BreaksFromZero(blocks, template, block_size) ==
    LET ix == BreakIndices(blocks, template)
    IN  [j \in 1..Len(ix) |->
            [block_index       |-> ix[j] - 1,
             position          |-> (ix[j] - 1) * block_size,
             expected_template |-> template,
             actual_values     |-> blocks[ix[j] + 1]]]

Breaks(blocks, template, block_size) ==
    LET ix == BreakIndices(blocks, template)
    IN  [j \in 1..Len(ix) |->
            [block_index       |-> ix[j],
             position          |-> ix[j] * block_size,
             expected_template |-> template,
             actual_values     |-> blocks[ix[j] + 1]]]

\* a slip that would report only the matching blocks as repeat_count
RepeatingResultMatchingCount(ne, block_size) ==
    LET blocks   == Blocks(ne, block_size)
        template == BlockTemplate(blocks[1])
        breaks   == Breaks(blocks, template, block_size)
        base     == [type               |-> "repeating",
                     block_size         |-> block_size,
                     template           |-> template,
                     repeat_count       |-> Len(blocks) - Len(breaks),
                     total_items        |-> Len(ne),
                     sample_first_block |-> blocks[1]]
    IN  IF Len(breaks) > 0 THEN base @@ ("breaks" :> breaks) ELSE base

RepeatingResult(ne, block_size) ==
    LET blocks   == Blocks(ne, block_size)
        template == BlockTemplate(blocks[1])
        breaks   == Breaks(blocks, template, block_size)
        base     == [type               |-> "repeating",
                     block_size         |-> block_size,
                     template           |-> template,
                     repeat_count       |-> Len(blocks),
                     total_items        |-> Len(ne),
                     sample_first_block |-> blocks[1]]
    IN  IF Len(breaks) > 0 THEN base @@ ("breaks" :> breaks) ELSE base

\* one iteration of the block_size loop accepts the size
BlockAccepted(ne, block_size) ==
    LET blocks == Blocks(ne, block_size)
    IN  /\ Len(blocks) >= 2
        /\ LET template == BlockTemplate(blocks[1])
               matching_blocks ==
                   Len(blocks) - Len(BreakIndices(blocks, template))
           IN  ThresholdMet(matching_blocks, Len(blocks))

MaxBlockSize == 10

\* a slip that would try one block size more (len(non_empty) // 2 + 2)
BlockSizesOneMore(ne) == 1..Min(MaxBlockSize, Len(ne) \div 2 + 1)

\* range(1, min(11, len(non_empty) // 2 + 1))
BlockSizes(ne) == 1..Min(MaxBlockSize, Len(ne) \div 2)

\* a slip that would prefer the largest accepted size
FirstAcceptedLargest(ne, block_size) ==
    LET ok == {b \in BlockSizes(ne) : b >= block_size /\ BlockAccepted(ne, b)}
    IN  IF ok = {} THEN 0 ELSE CHOOSE b \in ok : \A c \in ok : c <= b

\* the first accepted size at or after block_size, 0 when the loop runs out
RECURSIVE FirstAccepted(_, _)
FirstAccepted(ne, block_size) ==
    IF block_size \notin BlockSizes(ne) THEN 0
    ELSE IF BlockAccepted(ne, block_size) THEN block_size
    ELSE FirstAccepted(ne, block_size + 1)

\* the largest power of two below k (k >= 2)
PowerBelow(k) ==
    CHOOSE p \in {2 ^ e : e \in 0..29} : p < k /\ k <= 2 * p

\* n * 0.7 is a float below the integer 7n/10.  The float 0.7 is
\* 7/10 - 4/(10 * 2^53), so for n = 10j the exact product is 7j - j/2^51;
\* between p and 2p, p the largest power of two below 7j, floats are
\* p/2^52 apart, and the product is rounded to 7j unless it lies more than
\* half that distance below it (a tie goes to 7j, whose significand is
\* even).
ProductBelow(n) ==
    /\ n > 0
    /\ n % 10 = 0
    /\ 4 * (n \div 10) > PowerBelow(7 * (n \div 10))

\* date_count > len(non_empty) * 0.7, on floats: the exact comparison, but
\* for a date_count of 7n/10 when the product is rounded below it (first
\* for 63 dates in 90 values)
MostlyDates(ne) ==
    LET date_count == Len(SelectSeq(ne, is_date))
    IN  \/ 10 * date_count > 7 * Len(ne)
        \/ 10 * date_count = 7 * Len(ne) /\ ProductBelow(Len(ne))

\* str(val).split(): the first whitespace-separated token, <<>> standing
\* for the empty list (no token)
FirstToken(val) ==
    LET starts == {i \in 1..Len(val) : val[i] \notin Whitespace}
    IN  IF starts = {} THEN <<>>
        ELSE LET s == CHOOSE i \in starts : \A j \in starts : i <= j
                 ends == {i \in s..Len(val) :
                            i = Len(val) \/ val[i + 1] \in Whitespace}
                 e == CHOOSE i \in ends : \A j \in ends : i <= j
             IN  SubSeq(val, s, e)

\* str(val).split()[0] raises IndexError
PrefixRaises(val) == " " \in Chars(val) /\ FirstToken(val) = <<>>

\* str(val).split()[0] if ' ' in str(val) else str(val)[:min(5, len)]
Prefix(val) ==
    IF " " \in Chars(val) THEN FirstToken(val)
    ELSE SubSeq(val, 1, Min(5, Len(val)))

\* list(dict.fromkeys(seq)): distinct elements in first-occurrence order
\* (the keys of the first half, then the new keys of the second half)
RECURSIVE Unique(_)
Unique(seq) ==
    IF Len(seq) <= 1 THEN seq
    ELSE LET half == Len(seq) \div 2
             init == Unique(SubSeq(seq, 1, half))
             rest == Unique(SubSeq(seq, half + 1, Len(seq)))
         IN  init \o SelectSeq(rest, LAMBDA x :
                                      \A i \in 1..Len(init) : init[i] # x)

Count(seq, x) == Cardinality({i \in 1..Len(seq) : seq[i] = x})

\* max(prefixes.items(), key=count): the first key, in insertion order,
\* that has the largest count
Dominant(prefixes) ==
    LET keys == Unique(prefixes)
        best == CHOOSE i \in 1..Len(keys) :
                   /\ \A j \in 1..Len(keys) :
                         Count(prefixes, keys[j]) <= Count(prefixes, keys[i])
                   /\ \A j \in 1..(i - 1) :
                         Count(prefixes, keys[j]) < Count(prefixes, keys[i])
    IN  <<keys[best], Count(prefixes, keys[best])>>

\* dominant[1] > len(non_empty) * 0.3.  The float 0.3 is
\* 3/10 - 1/(10 * 2^53): for n = 10j the product 3j - j/2^53 lies less than
\* half a float step below 3j and is rounded to 3j, so the comparison is
\* the exact one.
PrefixDominates(count, n) == 10 * count > 3 * n

Head5(seq)  == SubSeq(seq, 1, Min(5, Len(seq)))
Head10(seq) == SubSeq(seq, 1, Min(10, Len(seq)))

MaxListed == 20

\* lines 184-198
Fallback(vals, ne) ==
    LET unique == Unique(ne)
    IN  IF Len(unique) <= MaxListed
        THEN [type |-> "list", values |-> unique, total |-> Len(vals)]
        ELSE [type |-> "varied", unique_count |-> Len(unique),
              total |-> Len(vals), sample |-> Head10(ne)]

\* lines 166-198
PrefixOrFallback(vals, ne) ==
    IF Len(ne) > 5
    THEN IF \E i \in 1..Len(ne) : PrefixRaises(ne[i])
         THEN [raised |-> "IndexError"]
         ELSE LET dominant == Dominant([i \in 1..Len(ne) |-> Prefix(ne[i])])
              IN  IF PrefixDominates(dominant[2], Len(ne))
                  THEN [type          |-> "varied_with_prefix",
                        common_prefix |-> dominant[1],
                        prefix_count  |-> dominant[2],
                        total         |-> Len(ne),
                        sample        |-> Head5(ne)]
                  ELSE Fallback(vals, ne)
    ELSE Fallback(vals, ne)

\* a slip that would count only the non-blank values
UniformResultNonBlank(vals, ne) ==
    [type |-> "uniform", value |-> ne[1], count |-> Len(ne)]

\* line 89
UniformResult(vals, ne) ==
    [type |-> "uniform", value |-> ne[1], count |-> Len(vals)]

\* a slip that would check for dates before trying the block sizes
DetectDatesFirst(vals) ==
    LET ne == non_empty(vals)
    IN  IF Len(vals) = 0 THEN [type |-> "empty"]
        ELSE IF Len(ne) = 0 THEN [type |-> "all_empty", count |-> Len(vals)]
        ELSE IF Len(ne) = 1 THEN [type |-> "single", value |-> ne[1]]
        ELSE IF Cardinality({ne[i] : i \in 1..Len(ne)}) = 1
             THEN UniformResult(vals, ne)
        ELSE IF Len(ne) >= 3 /\ MostlyDates(ne)
             THEN [type   |-> "date_sequence",
                   count  |-> Len(ne),
                   first  |-> ne[1],
                   last   |-> ne[Len(ne)],
                   sample |-> Head5(ne)]
        ELSE IF FirstAccepted(ne, 1) # 0
             THEN RepeatingResult(ne, FirstAccepted(ne, 1))
        ELSE PrefixOrFallback(vals, ne)

detect_pattern(vals) ==
    LET ne == non_empty(vals)
    IN  IF Len(vals) = 0 THEN [type |-> "empty"]
        ELSE IF Len(ne) = 0 THEN [type |-> "all_empty", count |-> Len(vals)]
        ELSE IF Len(ne) = 1 THEN [type |-> "single", value |-> ne[1]]
        ELSE IF Cardinality({ne[i] : i \in 1..Len(ne)}) = 1
             THEN UniformResult(vals, ne)
        ELSE IF FirstAccepted(ne, 1) # 0
             THEN RepeatingResult(ne, FirstAccepted(ne, 1))
        ELSE IF Len(ne) >= 3 /\ MostlyDates(ne)
             THEN [type   |-> "date_sequence",
                   count  |-> Len(ne),
                   first  |-> ne[1],
                   last   |-> ne[Len(ne)],
                   sample |-> Head5(ne)]
        ELSE PrefixOrFallback(vals, ne)

----------------------------------------------------------------------------
(* extract_formula and normalize_formula *)

\* the value of cell['userEnteredValue']['formulaValue'], None without it
extract_formula(cell_data) ==
    IF "userEnteredValue" \in DOMAIN cell_data
    THEN IF "formulaValue" \in DOMAIN cell_data.userEnteredValue
         THEN cell_data.userEnteredValue.formulaValue
         ELSE Null
    ELSE Null

\* the length of the longest run of class characters of s that starts at i
RunLen(s, i, class) ==
    LET stops == {j \in i..(Len(s) + 1) : j = Len(s) + 1 \/ s[j] \notin class}
    IN  (CHOOSE j \in stops : \A k \in stops : j <= k) - i

\* the length of the match of  [\$]? [A-Z]+ [\$]? \d+  at position i of s
\* (lead: the pattern starts with \$, mid: it has \$ before the digits);
\* 0 when it does not match there.  Both runs are greedy, and giving back
\* a letter or a digit never lets the rest match.
MatchLen(s, i, lead, mid) ==
    LET a  == IF lead THEN i + 1 ELSE i
        l1 == RunLen(s, a, Upper)
        b  == IF mid THEN a + l1 + 1 ELSE a + l1
        l2 == RunLen(s, b, Digits)
    IN  IF /\ lead => (i <= Len(s) /\ s[i] = "$")
           /\ l1 >= 1
           /\ mid => (a + l1 <= Len(s) /\ s[a + l1] = "$")
           /\ l2 >= 1
        THEN b + l2 - i
        ELSE 0

\* re.sub with count=1: only the leftmost match is replaced
ReSubFirst(s, i, lead, mid, repl) ==
    LET hits == {j \in i..Len(s) : MatchLen(s, j, lead, mid) > 0}
    IN  IF hits = {} THEN SubSeq(s, i, Len(s))
        ELSE LET j == CHOOSE h \in hits : \A k \in hits : h <= k
             IN  SubSeq(s, i, j - 1) \o repl
                     \o SubSeq(s, j + MatchLen(s, j, lead, mid), Len(s))

\* re.sub(pattern, repl, s) from position i on: leftmost matches, left to
\* right, without overlap
RECURSIVE ReSub(_, _, _, _, _)
ReSub(s, i, lead, mid, repl) ==
    IF i > Len(s) THEN <<>>
    ELSE LET n == MatchLen(s, i, lead, mid)
         IN  IF n > 0 THEN repl \o ReSub(s, i + n, lead, mid, repl)
             ELSE <<s[i]>> \o ReSub(s, i + 1, lead, mid, repl)

\* a placeholder whose text reads as a cell reference
AbsTagCellLike == <<"{", "A", "B", "S", "1", "}">>

AbsTag    == <<"{", "A", "B", "S", "}">>
ColAbsTag == <<"{", "C", "O", "L", "_", "A", "B", "S", "}">>
RowAbsTag == <<"{", "R", "O", "W", "_", "A", "B", "S", "}">>
RelTag    == <<"{", "R", "E", "L", "}">>

\* the passes run from the least specific pattern to the most specific
NormalizeRelFirst(formula) ==
    IF ~Truthy(formula) THEN <<>>
    ELSE LET p1 == ReSub(formula, 1, FALSE, FALSE, RelTag)
             p2 == ReSub(p1, 1, FALSE, TRUE, RowAbsTag)
             p3 == ReSub(p2, 1, TRUE, FALSE, ColAbsTag)
         IN  ReSub(p3, 1, TRUE, TRUE, AbsTag)

normalize_formula(formula) ==
    IF ~Truthy(formula) THEN <<>>
    ELSE LET p1 == ReSub(formula, 1, TRUE, TRUE, AbsTag)
             p2 == ReSub(p1, 1, TRUE, FALSE, ColAbsTag)
             p3 == ReSub(p2, 1, FALSE, TRUE, RowAbsTag)
         IN  ReSub(p3, 1, FALSE, FALSE, RelTag)

----------------------------------------------------------------------------
(* analyze_formula_ranges.  Row indices are 0-based as in the code: row i  *)
(* of the grid is rows[i + 1].                                             *)

NoRange == [none |-> TRUE]

\* 'values' in row and col_idx < len(row['values'])
HasCell(row, col) == "values" \in DOMAIN row /\ col < Len(row.values)

\* the formula the scan sees in row i, Null when the row has no cell at the
\* column or the cell has no formula
FormulaAt(rows, col, i) ==
    IF HasCell(rows[i + 1], col)
    THEN extract_formula(rows[i + 1].values[col + 1])
    ELSE Null

NewRange(i, pattern, formula) ==
    [start_row     |-> i,
     end_row       |-> i,
     pattern       |-> pattern,
     first_formula |-> formula,
     formula_count |-> 1,
     formulas      |-> <<formula>>]

MaxExamples == 3

\* a slip that would extend the open range without comparing patterns
ExtendOrSplitNoCompare(cur, ranges_, i, pattern, formula) ==
    [current_range |->
        [cur EXCEPT !.end_row = i,
                    !.formula_count = @ + 1,
                    !.formulas = IF Len(@) < MaxExamples
                                 THEN Append(@, formula) ELSE @],
     ranges |-> ranges_]

\* a slip that would still append when 3 examples are stored (<= 3)
ExtendOrSplitFour(cur, ranges_, i, pattern, formula) ==
    IF cur.pattern = pattern
    THEN [current_range |->
             [cur EXCEPT !.end_row = i,
                         !.formula_count = @ + 1,
                         !.formulas = IF Len(@) <= MaxExamples
                                      THEN Append(@, formula) ELSE @],
          ranges |-> ranges_]
    ELSE [current_range |-> NewRange(i, pattern, formula),
          ranges |-> Append(ranges_, cur)]

\* a slip that would extend the range without counting the formula
ExtendOrSplitNoCount(cur, ranges_, i, pattern, formula) ==
    IF cur.pattern = pattern
    THEN [current_range |->
             [cur EXCEPT !.end_row = i,
                         !.formulas = IF Len(@) < MaxExamples
                                      THEN Append(@, formula) ELSE @],
          ranges |-> ranges_]
    ELSE [current_range |-> NewRange(i, pattern, formula),
          ranges |-> Append(ranges_, cur)]

\* lines 269-285: a formula row met while a range is open
ExtendOrSplit(cur, ranges_, i, pattern, formula) ==
    IF cur.pattern = pattern
    THEN [current_range |->
             [cur EXCEPT !.end_row = i,
                         !.formula_count = @ + 1,
                         !.formulas = IF Len(@) < MaxExamples
                                      THEN Append(@, formula) ELSE @],
          ranges |-> ranges_]
    ELSE [current_range |-> NewRange(i, pattern, formula),
          ranges |-> Append(ranges_, cur)]

\* a slip that would take every formulaValue, the empty string too, for a
\* formula (if formula is not None)
ScanStepNotNone(st, rows, col, i) ==
    LET formula == FormulaAt(rows, col, i)
    IN  IF formula # Null
        THEN IF st.current_range = NoRange
             THEN [st EXCEPT !.current_range =
                       NewRange(i, normalize_formula(formula), formula)]
             ELSE ExtendOrSplit(st.current_range, st.ranges, i,
                                normalize_formula(formula), formula)
        ELSE IF st.current_range # NoRange
             THEN [current_range |-> NoRange,
                   ranges |-> Append(st.ranges, st.current_range)]
             ELSE st

\* a slip that would pass over a row without a cell at the column (no
\* else branch at line 292), leaving the open range open across it
ScanStepSkipMissing(st, rows, col, i) ==
    LET formula == FormulaAt(rows, col, i)
    IN  IF ~HasCell(rows[i + 1], col) THEN st
        ELSE IF Truthy(formula)
        THEN IF st.current_range = NoRange
             THEN [st EXCEPT !.current_range =
                       NewRange(i, normalize_formula(formula), formula)]
             ELSE ExtendOrSplit(st.current_range, st.ranges, i,
                                normalize_formula(formula), formula)
        ELSE IF st.current_range # NoRange
             THEN [current_range |-> NoRange,
                   ranges |-> Append(st.ranges, st.current_range)]
             ELSE st

\* one iteration of the loop over row_idx (lines 249-296); st holds
\* current_range and ranges
ScanStep(st, rows, col, i) ==
    LET formula == FormulaAt(rows, col, i)
    IN  IF Truthy(formula)
        THEN IF st.current_range = NoRange
             THEN [st EXCEPT !.current_range =
                       NewRange(i, normalize_formula(formula), formula)]
             ELSE ExtendOrSplit(st.current_range, st.ranges, i,
                                normalize_formula(formula), formula)
        ELSE IF st.current_range # NoRange
             THEN [current_range |-> NoRange,
                   ranges |-> Append(st.ranges, st.current_range)]
             ELSE st

\* the loop state after the rows start..(i - 1)
RECURSIVE ScanTo(_, _, _, _)
ScanTo(rows, col, start, i) ==
    IF i <= start THEN [current_range |-> NoRange, ranges |-> <<>>]
    ELSE ScanStep(ScanTo(rows, col, start, i - 1), rows, col, i - 1)

\* a slip that would forget the range still open when the scan ends
AnalyzeNoFlush(rows, col, start) ==
    ScanTo(rows, col, start, Len(rows)).ranges

analyze_formula_ranges(rows, col, start) ==
    LET st == ScanTo(rows, col, start, Len(rows))
    IN  IF st.current_range # NoRange
        THEN Append(st.ranges, st.current_range)
        ELSE st.ranges

----------------------------------------------------------------------------
(* The formula flow of analyze_column_types (lines 395-432) *)

\* the look-ahead stops before end_row + LookAhead
LookAhead == 10

\* a slip that would stop the look-ahead one row early
CheckRowsNarrower(rows, end_row) ==
    (end_row + 1)..(Min(end_row + LookAhead - 1, Len(rows)) - 1)

\* a slip that would carry the look-ahead one row further
CheckRowsWider(rows, end_row) ==
    (end_row + 1)..(Min(end_row + LookAhead + 1, Len(rows)) - 1)

\* the rows range(end_row + 1, min(end_row + 10, len(row_data))) inspects
CheckRows(rows, end_row) ==
    (end_row + 1)..(Min(end_row + LookAhead, Len(rows)) - 1)


\* a slip that would keep looking after the first formula (no break at
\* line 421), ending with the last formula row of the window
NextFormulaRowLast(rows, col, end_row) ==
    LET found == {r \in CheckRows(rows, end_row) :
                     Truthy(FormulaAt(rows, col, r))}
    IN  IF found = {} THEN 0
        ELSE (CHOOSE r \in found : \A q \in found : q <= r) + 1

\* next_formula_row: the 1-based number of the first inspected row with a
\* formula, 0 when there is none
NextFormulaRow(rows, col, end_row) ==
    LET found == {r \in CheckRows(rows, end_row) :
                     Truthy(FormulaAt(rows, col, r))}
    IN  IF found = {} THEN 0
        ELSE (CHOOSE r \in found : \A q \in found : r <= q) + 1

\* a slip that would measure the break from the 0-based end row
FlowEntryZeroBased(rows, col, range_info) ==
    LET base == [start_row     |-> range_info.start_row + 1,
                 end_row       |-> range_info.end_row + 1,
                 row_count     |-> range_info.formula_count,
                 pattern       |-> range_info.pattern,
                 first_formula |-> range_info.first_formula,
                 examples      |-> SubSeq(range_info.formulas, 1,
                                      Min(3, Len(range_info.formulas)))]
        next == IF range_info.end_row < Len(rows) - 1
                THEN NextFormulaRow(rows, col, range_info.end_row)
                ELSE 0
    IN  IF next # 0
        THEN base @@ [break_after      |-> TRUE,
                      continues_at_row |-> next,
                      break_size       |-> next - range_info.end_row - 1]
        ELSE base

\* a slip that would report the scan's 0-based rows
FlowEntryRawRows(rows, col, range_info) ==
    LET base == [start_row     |-> range_info.start_row,
                 end_row       |-> range_info.end_row,
                 row_count     |-> range_info.formula_count,
                 pattern       |-> range_info.pattern,
                 first_formula |-> range_info.first_formula,
                 examples      |-> SubSeq(range_info.formulas, 1,
                                      Min(3, Len(range_info.formulas)))]
        next == IF range_info.end_row < Len(rows) - 1
                THEN NextFormulaRow(rows, col, range_info.end_row)
                ELSE 0
    IN  IF next # 0
        THEN base @@ [break_after      |-> TRUE,
                      continues_at_row |-> next - 1,
                      break_size       |-> next - 1 - base.end_row - 1]
        ELSE base

\* lines 401-428: the flow entry of one range
FlowEntry(rows, col, range_info) ==
    LET base == [start_row     |-> range_info.start_row + 1,
                 end_row       |-> range_info.end_row + 1,
                 row_count     |-> range_info.formula_count,
                 pattern       |-> range_info.pattern,
                 first_formula |-> range_info.first_formula,
                 examples      |-> SubSeq(range_info.formulas, 1,
                                      Min(3, Len(range_info.formulas)))]
        next == IF range_info.end_row < Len(rows) - 1
                THEN NextFormulaRow(rows, col, range_info.end_row)
                ELSE 0
    IN  IF next # 0
        THEN base @@ [break_after      |-> TRUE,
                      continues_at_row |-> next,
                      break_size       |-> next - base.end_row - 1]
        ELSE base

\* formulas: the formulas of the rows start.. of the column (lines 337-349)
HasFormulas(rows, col, start) ==
    {i \in start..(Len(rows) - 1) : Truthy(FormulaAt(rows, col, i))} # {}

\* analyze_column_types reaches line 395 with a non-empty formulas list
FlowBuilt(rows, col, start) ==
    /\ Len(rows) > start
    /\ {i \in 1..Len(rows) : HasCell(rows[i], col)} # {}
    /\ HasFormulas(rows, col, start)

----------------------------------------------------------------------------
(* The inputs of detect_pattern that the model explores *)

Q1    == <<"Q", "1">>
Rev   == <<"R", "e", "v">>
Cost  == <<"C", "o", "s", "t">>
Space == <<" ">>
Empty == <<>>
Num   == <<"1", ".", "5">>
Date1 == <<"2", "0", "2", "4", "-", "0", "1", "-", "0", "1">>
Date2 == <<"2", "0", "2", "4", "-", "0", "1", "-", "0", "2">>
Date3 == <<"2", "0", "2", "4", "-", "0", "1", "-", "0", "3">>
DateS == <<"1", "/", "2", "/", "2", "0", "2", "4">>

\* values with digits of other scripts: ARABIC-INDIC DIGIT ONE and TWO,
\* SUPERSCRIPT TWO (a digit for str.isdigit(), not for \d), and the date
\* 1/2/202x with each of the two in its last place
ArOne     == <<"U+0661">>
ArTwo     == <<"U+0662">>
SuperTwo  == <<"U+00B2">>
ArDate    == <<"1", "/", "2", "/", "2", "0", "2", "U+0662">>
SuperDate == <<"1", "/", "2", "/", "2", "0", "2", "U+00B2">>

\* values of the long inputs
CoreValues == {Null, Q1, Rev, Space, Date1}

\* values of the short inputs
AllValues ==
    {Null, Empty, Q1, Rev, Cost, Space, Num, Date1, Date2, Date3, DateS,
     ArOne, SuperTwo, ArDate, SuperDate}

\* values of the inputs with digits of another script
ScriptValues == {Q1, ArOne, ArTwo, ArDate}

MaxLen       == 6
MaxShortLen  == 3
MaxBinaryLen == 10
MaxPeriod    == 11

\* one-letter header values
Letters == <<"a", "b", "c", "d", "e", "f", "g", "h", "i", "j", "k", "l", "m",
             "n", "o", "p", "q", "r", "s", "t", "u", "v", "w", "x", "y", "z">>

\* a block of period distinct one-letter values, written reps times
Periodic(period, reps) ==
    [i \in 1..(period * reps) |-> <<Letters[((i - 1) % period) + 1]>>]

\* periodic header rows, up to periods beyond the largest block size tried
PeriodicInputs ==
    {Periodic(period, reps) : period \in 1..MaxPeriod, reps \in 2..3}

BoundedSeq(S, n) == UNION {[1..k -> S] : k \in 0..n}

\* values with a space inside or in front, and values longer than 5
\* characters that share their first 5
TotalA  == <<"T", " ", "a">>
LeadT   == <<" ", "T">>
Totals1 == <<"T", "o", "t", "a", "l", "s", "1">>
Totals2 == <<"T", "o", "t", "a", "l", "s", "2">>

PrefixValues == {TotalA, LeadT, Totals1, Totals2}

\* headers long enough for the prefix grouping (more than 5 values)
PrefixInputs == UNION {[1..k -> PrefixValues] : k \in 6..MaxLen}

\* values with separators other than the space: a vertical tab in the
\* first word, a space followed by a vertical tab, and a no-break space
\* but no space
VtWords  == <<"k", "U+000B", "b", " ", "c">>
SpaceVt  == <<" ", "U+000B">>
NbspWord == <<"T", "U+00A0", "a">>

SeparatorValues == {VtWords, SpaceVt, NbspWord, Totals1}

\* headers long enough for the prefix grouping, with those separators
SeparatorInputs == UNION {[1..k -> SeparatorValues] : k \in 6..MaxLen}

MaxDated == 90

Repeat(v, n) == [i \in 1..n |-> v]

\* long headers that start with a label and go on with dates, the dates
\* being one short of 70% of the values, 70% of them, or one more
DatedInputs ==
    {Repeat(Q1, n - d) \o Repeat(Date1, d) :
        <<n, d>> \in {t \in (80..MaxDated) \X (55..MaxDated) :
                        /\ t[2] <= t[1]
                        /\ t[2] \in ((7 * t[1]) \div 10 - 1)
                                       ..((7 * t[1]) \div 10 + 1)}}

MaxDistinct == 25

\* n different one-letter values
Distinct(n) == [i \in 1..n |-> <<Letters[i]>>]

\* headers without any repetition; between them nothing, a blank cell or
\* a cell that holds one space
DistinctInputs ==
    {Distinct(n) \o pad \o Distinct(k) :
        n \in 0..MaxDistinct, k \in 0..3,
        pad \in {<<>>, <<Null>>, <<Empty>>, <<Space>>}}

\* the sequences quoted by the specification's examples
ExampleInputs ==
    { <<Q1, Rev, Q1, Rev, Q1, Cost>>,
      <<Q1, Rev, Q1, Rev, Q1, Rev, Q1, Cost>>,
      <<Q1, Rev, Q1, Rev, Q1, Rev>>,
      <<Date1, Date2, Date3>>,
      <<Null, Empty, Null>> }

DetectInputs ==
    BoundedSeq(CoreValues, MaxLen) \cup BoundedSeq(AllValues, MaxShortLen)
        \cup BoundedSeq({Q1, Rev}, MaxBinaryLen) \cup PeriodicInputs
        \cup PrefixInputs \cup DistinctInputs \cup ExampleInputs
        \cup BoundedSeq(ScriptValues, MaxLen) \cup SeparatorInputs
        \cup DatedInputs

----------------------------------------------------------------------------
(* The grids that the model explores: rows of two cells, as the API        *)
(* delivers them                                                           *)

FRelA == <<"=", "A", "1">>
FRelB == <<"=", "B", "2", "2">>
FAbs  == <<"=", "$", "A", "$", "1">>

EmptyCell        == <<>>
ValueCell        == [userEnteredValue |-> [numberValue |-> 7]]
BlankFormulaCell == [userEnteredValue |-> [formulaValue |-> <<>>]]
FormulaCell(f)   == [userEnteredValue |-> [formulaValue |-> f]]

NoValuesRow      == <<>>
ShortRow         == [values |-> <<FormulaCell(FRelA)>>]
RowOf(cell)      == [values |-> <<ValueCell, cell>>]

RowKinds ==
    {NoValuesRow, ShortRow, RowOf(EmptyCell), RowOf(ValueCell),
     RowOf(BlankFormulaCell), RowOf(FormulaCell(FRelA)),
     RowOf(FormulaCell(FRelB)), RowOf(FormulaCell(FAbs))}

MaxRows     == 3
MaxLongRows == 11

\* row i of a segment: a gap, a relative formula (the text changes from
\* row to row, the signature does not) or an absolute one
SegmentRow(kind, i) ==
    IF kind = "gap" THEN NoValuesRow
    ELSE IF kind = "abs" THEN RowOf(FormulaCell(FAbs))
    ELSE IF i % 2 = 1 THEN RowOf(FormulaCell(FRelA))
    ELSE RowOf(FormulaCell(FRelB))

Segment(kind, n) == [i \in 1..n |-> SegmentRow(kind, i)]

SegmentKinds == {"gap", "rel", "abs"}

\* long columns made of at most three segments
SegmentedGrids ==
    {Segment(k1, n1) \o Segment(k2, n2) \o Segment(k3, n3) :
        <<k1, k2, k3, n1, n2, n3>> \in
            {t \in SegmentKinds \X SegmentKinds \X SegmentKinds
                     \X (0..MaxLongRows) \X (0..MaxLongRows)
                     \X (0..MaxLongRows) :
                t[4] + t[5] + t[6] <= MaxLongRows}}

Grids == BoundedSeq(RowKinds, MaxRows) \cup SegmentedGrids

----------------------------------------------------------------------------
(* The formulas that the model normalizes *)

MaxFormulaLen == 6

\* a column letter, a row digit, the absolute marker and an operator
FormulaChars == {"A", "1", "$", "+"}

FAbsRel    == <<"=", "$", "A", "$", "1", "+", "B", "2">>
FRelColAbs == <<"=", "A", "1", "+", "$", "B", "1">>
FSumRowAbs == <<"=", "S", "U", "M", "(", "A", "1", ":", "A", "$", "9", ")">>

\* references whose row number is written with ARABIC-INDIC DIGIT ONE, and
\* with SUPERSCRIPT TWO, which \d does not match
FRelAr    == <<"=", "A", "U+0661", "+", "$", "B", "$", "U+0661">>
FRelSuper == <<"=", "A", "U+00B2", "+", "A", "1", "U+00B2">>

\* the formulas quoted by the specification's examples
ExampleFormulas ==
    {FAbsRel, FRelColAbs, FSumRowAbs, FRelA, FRelB, FAbs, FRelAr, FRelSuper}

FormulaInputs ==
    BoundedSeq(FormulaChars, MaxFormulaLen) \cup ExampleFormulas \cup {Null}

----------------------------------------------------------------------------
(* State machine *)

NoResult == [pending |-> TRUE]

FormulaIdle ==
    /\ row_data = <<>>
    /\ col_idx = 0
    /\ start_row = 0
    /\ ranges = <<>>
    /\ formula_flow = <<>>
    /\ fpc = "idle"
    /\ row_idx = 0
    /\ current_range = NoRange

DetectIdle ==
    /\ values = <<>>
    /\ result = NoResult
    /\ dpc = "idle"

NormalizeIdle ==
    /\ formula_text = <<>>
    /\ signature = <<>>
    /\ nruns = -1

InitDetect ==
    /\ values \in DetectInputs
    /\ result = NoResult
    /\ dpc = "call"
    /\ FormulaIdle
    /\ NormalizeIdle

\* col_pattern = detect_pattern(column_headers)
Detect ==
    /\ dpc = "call"
    /\ result' = detect_pattern(values)
    /\ dpc' = "done"
    /\ UNCHANGED <<values>>
    /\ UNCHANGED formulaVars
    /\ UNCHANGED normalizeVars

NextDetect == Detect

SpecDetect == InitDetect /\ [][NextDetect]_vars

InitFormula ==
    /\ row_data \in Grids
    /\ col_idx \in {0, 1}
    /\ start_row \in {0, 1}
    /\ ranges = <<>>
    /\ formula_flow = <<>>
    /\ fpc = "scan"
    /\ row_idx = 0
    /\ current_range = NoRange
    /\ DetectIdle
    /\ NormalizeIdle

\* formula_ranges = analyze_formula_ranges(row_data, col_idx, start_row)
AnalyzeFormulaRanges ==
    /\ fpc = "scan"
    /\ ranges' = analyze_formula_ranges(row_data, col_idx, start_row)
    /\ fpc' = "flow"
    /\ UNCHANGED <<row_data, col_idx, start_row, formula_flow>>
    /\ UNCHANGED <<row_idx, current_range>>
    /\ UNCHANGED detectVars
    /\ UNCHANGED normalizeVars

\* lines 399-432: one flow entry per range
BuildFlow ==
    /\ fpc = "flow"
    /\ FlowBuilt(row_data, col_idx, start_row)
    /\ formula_flow' =
          [k \in 1..Len(ranges) |-> FlowEntry(row_data, col_idx, ranges[k])]
    /\ fpc' = "done"
    /\ UNCHANGED <<row_data, col_idx, start_row, ranges>>
    /\ UNCHANGED <<row_idx, current_range>>
    /\ UNCHANGED detectVars
    /\ UNCHANGED normalizeVars

\* lines 319-320 and 395: no formula in the column, no formula_flow key
SkipFlow ==
    /\ fpc = "flow"
    /\ ~FlowBuilt(row_data, col_idx, start_row)
    /\ formula_flow' = <<>>
    /\ fpc' = "done"
    /\ UNCHANGED <<row_data, col_idx, start_row, ranges>>
    /\ UNCHANGED <<row_idx, current_range>>
    /\ UNCHANGED detectVars
    /\ UNCHANGED normalizeVars

NextFormula == AnalyzeFormulaRanges \/ BuildFlow \/ SkipFlow

SpecFormula == InitFormula /\ [][NextFormula]_vars

\* analyze_formula_ranges(row_data, col_idx, start_row) entered: lines
\* 245-246
InitScan ==
    /\ row_data \in Grids
    /\ col_idx \in {0, 1}
    /\ start_row \in {0, 1}
    /\ ranges = <<>>
    /\ current_range = NoRange
    /\ row_idx = start_row
    /\ formula_flow = <<>>
    /\ fpc = "loop"
    /\ DetectIdle
    /\ NormalizeIdle

\* one iteration of for row_idx in range(start_row, len(row_data))
ScanRow ==
    /\ fpc = "loop"
    /\ row_idx < Len(row_data)
    /\ LET st == ScanStep([current_range |-> current_range, ranges |-> ranges],
                          row_data, col_idx, row_idx)
       IN  /\ current_range' = st.current_range
           /\ ranges' = st.ranges
    /\ row_idx' = row_idx + 1
    /\ UNCHANGED <<row_data, col_idx, start_row, formula_flow, fpc>>
    /\ UNCHANGED detectVars
    /\ UNCHANGED normalizeVars

\* lines 298-302: the loop is over, the open range is appended, return
ReturnRanges ==
    /\ fpc = "loop"
    /\ row_idx >= Len(row_data)
    /\ ranges' = IF current_range # NoRange
                 THEN Append(ranges, current_range)
                 ELSE ranges
    /\ fpc' = "returned"
    /\ UNCHANGED <<row_data, col_idx, start_row, formula_flow, row_idx,
                   current_range>>
    /\ UNCHANGED detectVars
    /\ UNCHANGED normalizeVars

NextScan == ScanRow \/ ReturnRanges

SpecScan == InitScan /\ [][NextScan]_vars

InitNormalize ==
    /\ formula_text \in FormulaInputs
    /\ signature = <<>>
    /\ nruns = 0
    /\ DetectIdle
    /\ FormulaIdle

\* pattern = normalize_formula(formula)
Normalize ==
    /\ nruns = 0
    /\ signature' = normalize_formula(formula_text)
    /\ nruns' = 1
    /\ UNCHANGED <<formula_text>>
    /\ UNCHANGED detectVars
    /\ UNCHANGED formulaVars

\* normalize_formula applied to the signature it returned
Renormalize ==
    /\ nruns = 1
    /\ signature' = normalize_formula(signature)
    /\ nruns' = 2
    /\ UNCHANGED <<formula_text>>
    /\ UNCHANGED detectVars
    /\ UNCHANGED formulaVars

NextNormalize == Normalize \/ Renormalize

SpecNormalize == InitNormalize /\ [][NextNormalize]_vars

\* the tag of a result; an exception has none
Tag(r) == IF "type" \in DOMAIN r THEN r.type
          ELSE IF "raised" \in DOMAIN r THEN "raised"
          ELSE "pending"

Returned == dpc = "done"

----------------------------------------------------------------------------
(* Properties of detect_pattern, checked under SpecDetect *)

PatternTags == {"empty", "all_empty", "single", "uniform", "repeating",
                "date_sequence", "varied_with_prefix", "list", "varied"}

\* the specification's words, stated without the code's helpers
NonBlankIdx(vals) == {i \in 1..Len(vals) : vals[i] # Null /\ vals[i] # <<>>}

NonBlank(vals) == SelectSeq(vals, LAMBDA v : v # Null /\ v # <<>>)

NumericShape(v) ==
    LET r == SelectSeq(v, LAMBDA c : c # "." /\ c # "-")
    IN  Len(r) > 0 /\ \A i \in 1..Len(r) : r[i] \in IsDigit

Shape(v) == IF is_date(v) THEN DateTag
            ELSE IF NumericShape(v) THEN NumberTag
            ELSE v

\* at least 70% of the complete chunks of size b have the first chunk's
\* template
ChunkQualifies(ne, b) ==
    LET c == Len(ne) \div b
        matches == {k \in 0..(c - 1) :
                      \A j \in 1..b : Shape(ne[k * b + j]) = Shape(ne[j])}
    IN  10 * Cardinality(matches) >= 7 * c

QualifyingSizes(ne) ==
    {b \in 1..Min(10, Len(ne) \div 2) : ChunkQualifies(ne, b)}

Least(S) == CHOOSE x \in S : \A y \in S : x <= y

\* the substring before the first space, else the first 5 characters
SpecPrefix(v) ==
    LET sp == {i \in 1..Len(v) : v[i] = " "}
    IN  IF sp = {} THEN SubSeq(v, 1, Min(5, Len(v)))
        ELSE SubSeq(v, 1, Least(sp) - 1)

RulePrefix(ne) ==
    /\ Len(ne) > 5
    /\ \E i \in 1..Len(ne) :
          10 * Cardinality({j \in 1..Len(ne) :
                               SpecPrefix(ne[j]) = SpecPrefix(ne[i])})
              > 3 * Len(ne)

RuleDates(ne) ==
    /\ Len(ne) >= 3
    /\ 10 * Cardinality({i \in 1..Len(ne) : is_date(ne[i])}) > 7 * Len(ne)

\* the tag of the first rule of the priority chain whose condition holds
FirstRule(vals) ==
    LET ne == NonBlank(vals)
    IN  IF Len(vals) = 0 THEN "empty"
        ELSE IF NonBlankIdx(vals) = {} THEN "all_empty"
        ELSE IF Cardinality(NonBlankIdx(vals)) = 1 THEN "single"
        ELSE IF \A i, j \in NonBlankIdx(vals) : vals[i] = vals[j] THEN "uniform"
        ELSE IF QualifyingSizes(ne) # {} THEN "repeating"
        ELSE IF RuleDates(ne) THEN "date_sequence"
        ELSE IF RulePrefix(ne) THEN "varied_with_prefix"
        ELSE IF Cardinality({ne[i] : i \in 1..Len(ne)}) <= 20 THEN "list"
        ELSE "varied"

\* the repeating-block search is reached: rules 1-4 do not apply
SearchReached(vals) ==
    \E i, j \in NonBlankIdx(vals) : vals[i] # vals[j]

\* C1: detect_pattern never raises; every call returns a result whose type
\* tag is one of the nine variants.
C1_Total == Returned => Tag(result) \in PatternTags

\* C2: every call returns the variant of the first rule of the priority
\* chain Empty, AllEmpty, Single, Uniform, Repeating, DateSequence,
\* VariedWithPrefix, List/Varied whose condition holds.
C2_PriorityChain == Returned => Tag(result) = FirstRule(values)

BreakExample     == <<Q1, Rev, Q1, Rev, Q1, Cost>>
LongBreakExample == <<Q1, Rev, Q1, Rev, Q1, Rev, Q1, Cost>>

\* C3 (as claimed): for [Q1, Rev, Q1, Rev, Q1, Cost] the result is
\* Repeating with block size 2 and the single break {2, 4, [Q1, Rev],
\* [Q1, Cost]}.
C3_BreakExampleClaimed ==
    (Returned /\ values = BreakExample) =>
        /\ Tag(result) = "repeating"
        /\ result.block_size = 2
        /\ "breaks" \in DOMAIN result
        /\ result.breaks = << [block_index       |-> 2,
                               position          |-> 4,
                               expected_template |-> <<Q1, Rev>>,
                               actual_values     |-> <<Q1, Cost>>] >>

\* C3 (amended): in [Q1, Rev, Q1, Rev, Q1, Cost] only 2 of the 3 chunks of
\* size 2 match, which is below 70%, so no block size is accepted and the
\* result is VariedWithPrefix {Q1, 3, 6}; with one more matching chunk in
\* front (3 of 4 match) the result is Repeating with block size 2 and the
\* single break {3, 6, [Q1, Rev], [Q1, Cost]}.
C3_BreakExample ==
    /\ (Returned /\ values = BreakExample) =>
          result = [type          |-> "varied_with_prefix",
                    common_prefix |-> Q1,
                    prefix_count  |-> 3,
                    total         |-> 6,
                    sample        |-> <<Q1, Rev, Q1, Rev, Q1>>]
    /\ (Returned /\ values = LongBreakExample) =>
          result = [type               |-> "repeating",
                    block_size         |-> 2,
                    template           |-> <<Q1, Rev>>,
                    repeat_count       |-> 4,
                    total_items        |-> 8,
                    sample_first_block |-> <<Q1, Rev>>,
                    breaks |-> << [block_index       |-> 3,
                                   position          |-> 6,
                                   expected_template |-> <<Q1, Rev>>,
                                   actual_values     |-> <<Q1, Cost>>] >>]

C3_Witness ==
    /\ Returned
    /\ values = LongBreakExample
    /\ "breaks" \in DOMAIN result

\* at least 3 non-blank values, all date-shaped and pairwise different
DistinctDates(vals) ==
    /\ Cardinality(NonBlankIdx(vals)) >= 3
    /\ \A i \in NonBlankIdx(vals) : is_date(vals[i])
    /\ \A i, j \in NonBlankIdx(vals) : i # j => vals[i] # vals[j]

\* C4 (as claimed): an input of at least 3 pairwise different date-shaped
\* non-blank values yields DateSequence with count, first, last and the
\* first 5 non-blank values.
C4_DateSequenceClaimed ==
    (Returned /\ DistinctDates(values)) =>
        LET ne == NonBlank(values)
        IN  result = [type   |-> "date_sequence",
                      count  |-> Len(ne),
                      first  |-> ne[1],
                      last   |-> ne[Len(ne)],
                      sample |-> SubSeq(ne, 1, Min(5, Len(ne)))]

\* C4 (amended): for such an input every value has the template <date>,
\* so block size 1 is accepted and the result is Repeating with block size
\* 1, template [<date>], repeat_count = total_items = the number of
\* non-blank values and no breaks; and every DateSequence that is returned
\* has count = the number of non-blank values, first and last = the first
\* and last non-blank value, sample = the first 5 non-blank values.
C4_DateSequence ==
    LET ne == NonBlank(values)
    IN  /\ (Returned /\ DistinctDates(values)) =>
              result = [type               |-> "repeating",
                        block_size         |-> 1,
                        template           |-> <<DateTag>>,
                        repeat_count       |-> Len(ne),
                        total_items        |-> Len(ne),
                        sample_first_block |-> <<ne[1]>>]
        /\ (Returned /\ Tag(result) = "date_sequence") =>
              result = [type   |-> "date_sequence",
                        count  |-> Len(ne),
                        first  |-> ne[1],
                        last   |-> ne[Len(ne)],
                        sample |-> SubSeq(ne, 1, Min(5, Len(ne)))]

C4_Witness ==
    /\ Returned
    /\ values = <<Date1, Date2, Date3>>
    /\ Tag(result) = "repeating"

\* C5: when the search is reached, the result is Repeating exactly when
\* some block size in 1..min(10, n div 2) has at least 70% of its complete
\* chunks matching the first chunk's template, and its block size is then
\* the smallest such size.
C5_SmallestBlock ==
    (Returned /\ SearchReached(values)) =>
        LET q == QualifyingSizes(NonBlank(values))
        IN  IF q = {} THEN Tag(result) # "repeating"
            ELSE Tag(result) = "repeating" /\ result.block_size = Least(q)

\* a call where a larger block size qualifies too and the smaller is taken
C5_Witness ==
    /\ Returned
    /\ Tag(result) = "repeating"
    /\ result.block_size = 1
    /\ 2 \in QualifyingSizes(NonBlank(values))

RepeatingKeys == {"type", "block_size", "template", "repeat_count",
                  "total_items", "sample_first_block"}

\* the chunks (0-based) of size b that do not match the first chunk
Deviating(ne, b) ==
    {k \in 0..((Len(ne) \div b) - 1) :
        \E j \in 1..b : Shape(ne[k * b + j]) # Shape(ne[j])}

\* block size, template, counts and sample of a Repeating result
RepeatingCore(r, ne) ==
    /\ r.block_size \in 1..Len(ne)
    /\ r.template = [j \in 1..r.block_size |-> Shape(ne[j])]
    /\ r.repeat_count = Len(ne) \div r.block_size
    /\ r.total_items = Len(ne)
    /\ r.sample_first_block = SubSeq(ne, 1, r.block_size)

\* the breaks list holds exactly the chunks of dev, in order
BreaksHold(r, ne, dev) ==
    /\ Len(r.breaks) = Cardinality(dev)
    /\ \A i \in 1..Len(r.breaks) :
          /\ r.breaks[i].block_index \in dev
          /\ r.breaks[i].actual_values =
                SubSeq(ne, r.breaks[i].block_index * r.block_size + 1,
                       (r.breaks[i].block_index + 1) * r.block_size)
          /\ \A j \in 1..(i - 1) :
                r.breaks[j].block_index < r.breaks[i].block_index

\* C6 (as claimed): every Repeating result carries the six fields and a
\* breaks list that holds every non-matching chunk and is empty when all
\* chunks match.
C6_RepeatingFieldsClaimed ==
    (Returned /\ Tag(result) = "repeating") =>
        LET ne == NonBlank(values)
        IN  /\ DOMAIN result = RepeatingKeys \cup {"breaks"}
            /\ RepeatingCore(result, ne)
            /\ BreaksHold(result, ne, Deviating(ne, result.block_size))

\* C6 (amended): every Repeating result carries block_size, template
\* (of the first chunk), repeat_count = the number of complete chunks,
\* total_items = the number of non-blank values and sample_first_block;
\* the breaks key is present only when some chunk does not match, and then
\* holds every non-matching chunk; when all chunks match there is no breaks
\* key, e.g. [Q1, Rev, Q1, Rev, Q1, Rev] gives {2, [Q1, Rev], 3, 6,
\* [Q1, Rev]} without breaks.
C6_RepeatingFields ==
    /\ (Returned /\ Tag(result) = "repeating") =>
          LET ne  == NonBlank(values)
              dev == Deviating(ne, result.block_size)
          IN  /\ RepeatingCore(result, ne)
              /\ IF dev = {} THEN DOMAIN result = RepeatingKeys
                 ELSE /\ DOMAIN result = RepeatingKeys \cup {"breaks"}
                      /\ BreaksHold(result, ne, dev)
    /\ (Returned /\ values = <<Q1, Rev, Q1, Rev, Q1, Rev>>) =>
          result = [type               |-> "repeating",
                    block_size         |-> 2,
                    template           |-> <<Q1, Rev>>,
                    repeat_count       |-> 3,
                    total_items        |-> 6,
                    sample_first_block |-> <<Q1, Rev>>]

\* a Repeating result with a break, and so with fewer matching chunks than
\* chunks
C6_Witness ==
    /\ Returned
    /\ Tag(result) = "repeating"
    /\ "breaks" \in DOMAIN result
    /\ result.repeat_count > Len(result.breaks) + 1

\* C7: a zero-length input yields Empty; a non-empty input of blanks only
\* yields AllEmpty with count = the input length; exactly one non-blank
\* element yields Single with that value; two or more non-blank elements
\* that are all equal yield Uniform with that value and count = the full
\* input length.
C7_Degenerate ==
    Returned =>
        LET nb == NonBlankIdx(values)
        IN  /\ Len(values) = 0 => result = [type |-> "empty"]
            /\ (Len(values) > 0 /\ nb = {}) =>
                  result = [type |-> "all_empty", count |-> Len(values)]
            /\ \A i \in nb :
                  /\ nb = {i} => result = [type |-> "single", value |-> values[i]]
                  /\ (nb # {i} /\ \A j \in nb : values[j] = values[i]) =>
                        result = [type  |-> "uniform",
                                  value |-> values[i],
                                  count |-> Len(values)]

\* a Uniform result whose count includes blank elements
C7_Witness ==
    /\ Returned
    /\ Tag(result) = "uniform"
    /\ result.count > Cardinality(NonBlankIdx(values))

\* rules 1-6 of the priority chain do not apply
PrefixRuleReached(vals) ==
    /\ SearchReached(vals)
    /\ QualifyingSizes(NonBlank(vals)) = {}
    /\ ~RuleDates(NonBlank(vals))

\* how many values of ne have the prefix p
Frequency(ne, p) == Cardinality({j \in 1..Len(ne) : SpecPrefix(ne[j]) = p})

\* the largest frequency of a prefix of ne
TopFrequency(ne) ==
    LET fs == {Frequency(ne, SpecPrefix(ne[i])) : i \in 1..Len(ne)}
    IN  CHOOSE f \in fs : \A g \in fs : g <= f

\* C15: a VariedWithPrefix result is returned only for more than 5
\* non-blank values to which no earlier rule applies; the prefix of a value
\* is its substring before the first space if it has a space, else its
\* first 5 characters; when rules 1-6 do not apply, there are more than 5
\* non-blank values and the most frequent prefix covers strictly more than
\* 30% of them, the result is VariedWithPrefix with common_prefix = a most
\* frequent prefix, prefix_count = its frequency, total = the number of
\* non-blank values and sample = the first 5 non-blank values.
C15_PrefixGrouping ==
    Returned =>
        LET ne == NonBlank(values)
        IN  /\ Tag(result) = "varied_with_prefix" =>
                  Len(ne) > 5 /\ PrefixRuleReached(values)
            /\ (PrefixRuleReached(values) /\ RulePrefix(ne)) =>
                  /\ Tag(result) = "varied_with_prefix"
                  /\ Frequency(ne, result.common_prefix) = TopFrequency(ne)
                  /\ result.prefix_count = TopFrequency(ne)
                  /\ result.total = Len(ne)
                  /\ result.sample = SubSeq(ne, 1, 5)

\* the distinct values of ne in the order of their first occurrence
FirstOccurrences(ne) ==
    LET first == {i \in 1..Len(ne) : \A j \in 1..(i - 1) : ne[j] # ne[i]}
        nth(k) == CHOOSE i \in first :
                     Cardinality({j \in first : j < i}) = k - 1
    IN  [k \in 1..Cardinality(first) |-> ne[nth(k)]]

UnrelatedExample == <<Q1, Rev, Cost>>

\* C16: when rules 1-7 do not apply, the result is List with values = the
\* distinct non-blank values in first-occurrence order and total = the
\* length of the input if there are at most 20 distinct values, and else
\* Varied with unique_count = their number, total = the length of the input
\* and sample = the first 10 non-blank values; 3 distinct unrelated values
\* give a List of 3 and 25 distinct one-letter values give Varied {25, 25}.
C16_Fallback ==
    Returned =>
        LET ne == NonBlank(values)
            u  == FirstOccurrences(ne)
        IN  /\ (PrefixRuleReached(values) /\ ~RulePrefix(ne)) =>
                  IF Len(u) <= 20
                  THEN result = [type   |-> "list",
                                 values |-> u,
                                 total  |-> Len(values)]
                  ELSE result = [type         |-> "varied",
                                 unique_count |-> Len(u),
                                 total        |-> Len(values),
                                 sample       |-> SubSeq(ne, 1, 10)]
            /\ values = UnrelatedExample =>
                  result = [type |-> "list", values |-> values, total |-> 3]
            /\ values = Distinct(25) =>
                  /\ Tag(result) = "varied"
                  /\ result.unique_count = 25
                  /\ result.total = 25

\* the template of chunk k (0-based) of size b
ChunkShape(ne, b, k) == [j \in 1..b |-> Shape(ne[k * b + j])]

\* the complete chunks of size b whose template is tpl
Sharing(ne, b, tpl) ==
    {k \in 0..((Len(ne) \div b) - 1) : ChunkShape(ne, b, k) = tpl}

\* C17: in every Repeating result the template is the template of a strict
\* majority of the complete chunks, and every entry of breaks is a chunk
\* whose template differs from it.
C17_DominantTemplate ==
    (Returned /\ Tag(result) = "repeating") =>
        LET ne == NonBlank(values)
            b  == result.block_size
        IN  /\ 2 * Cardinality(Sharing(ne, b, result.template)) > Len(ne) \div b
            /\ "breaks" \in DOMAIN result =>
                  \A i \in 1..Len(result.breaks) :
                      LET k == result.breaks[i].block_index
                      IN  /\ k \in 0..((Len(ne) \div b) - 1)
                          /\ k \notin Sharing(ne, b, result.template)
                          /\ result.breaks[i].expected_template = result.template
                          /\ result.breaks[i].actual_values =
                                SubSeq(ne, k * b + 1, (k + 1) * b)

\* a Repeating result of block size 2 with a break that is not the last
\* chunk
C17_Witness ==
    /\ Returned
    /\ Tag(result) = "repeating"
    /\ result.block_size = 2
    /\ "breaks" \in DOMAIN result
    /\ Len(result.breaks) = 1
    /\ result.breaks[1].block_index < result.repeat_count - 1
    /\ 2 * Cardinality(Sharing(NonBlank(values), 2, result.template))
          > result.repeat_count

\* the breaks of a result, none when the key is absent
BreaksOf(r) == IF "breaks" \in DOMAIN r THEN r.breaks ELSE <<>>

\* C24: each Break of a Repeating result has block_index = the index of a
\* complete chunk that does not match, position = block_index * block_size
\* (where the chunk starts among the non-blank values), expected_template =
\* the result's template and actual_values = the chunk's raw values; the
\* breaks are in increasing block_index and list every non-matching chunk.
C24_BreakEntries ==
    (Returned /\ Tag(result) = "repeating") =>
        LET ne  == NonBlank(values)
            b   == result.block_size
            brs == BreaksOf(result)
        IN  /\ {brs[i].block_index : i \in 1..Len(brs)} = Deviating(ne, b)
            /\ \A i \in 1..Len(brs) :
                  /\ brs[i].position = brs[i].block_index * b
                  /\ brs[i].expected_template = result.template
                  /\ brs[i].actual_values =
                        SubSeq(ne, brs[i].position + 1, brs[i].position + b)
                  /\ ChunkShape(ne, b, brs[i].block_index) # result.template
                  /\ i > 1 => brs[i - 1].block_index < brs[i].block_index

\* a break behind a blank cell: its position counts non-blank values, the
\* input holds another value at that offset
C24_Witness ==
    /\ Returned
    /\ Tag(result) = "repeating"
    /\ "breaks" \in DOMAIN result
    /\ Len(values) > Len(NonBlank(values))
    /\ values[result.breaks[1].position + 1] # result.breaks[1].actual_values[1]

\* C26: in every Repeating result the breaks are at most 30% of
\* repeat_count, 10 * (repeat_count - #breaks) >= 7 * repeat_count; so a
\* result with a break has repeat_count >= 4, and the first chunk
\* (block_index 0) is never a break.
C26_BreakShare ==
    (Returned /\ Tag(result) = "repeating") =>
        LET brs == BreaksOf(result)
        IN  /\ 10 * (result.repeat_count - Len(brs)) >= 7 * result.repeat_count
            /\ Len(brs) >= 1 => result.repeat_count >= 4
            /\ \A i \in 1..Len(brs) : brs[i].block_index >= 1

\* three breaks among ten chunks: the most the threshold lets through
C26_Witness ==
    /\ Returned
    /\ Tag(result) = "repeating"
    /\ result.repeat_count = 10
    /\ Len(BreaksOf(result)) = 3

\* the first non-blank value is date-shaped and more than 70% of the
\* non-blank values are
DatesLead(vals) ==
    LET ne == NonBlank(vals)
    IN  /\ Len(ne) >= 1
        /\ is_date(ne[1])
        /\ 10 * Cardinality({i \in 1..Len(ne) : is_date(ne[i])}) > 7 * Len(ne)

DateBlock(r) ==
    /\ Tag(r) = "repeating"
    /\ r.block_size = 1
    /\ r.template = <<DateTag>>

\* C27 as claimed: DateSequence is returned only when the first non-blank
\* value is not date-shaped; whenever the first non-blank value is
\* date-shaped and more than 70% of the non-blank values are, the result is
\* Repeating with block size 1 and template [<date>].
C27_DatesLeadClaimed ==
    Returned =>
        /\ Tag(result) = "date_sequence" => ~is_date(NonBlank(values)[1])
        /\ DatesLead(values) => DateBlock(result)

\* C27: DateSequence is returned only when the first non-blank value is
\* not date-shaped; whenever the first non-blank value is date-shaped, more
\* than 70% of the non-blank values are, and there are at least two
\* non-blank values, not all identical, the result is Repeating with block
\* size 1 and template [<date>]; a single date gives Single and identical
\* dates give Uniform.
C27_DatesLead ==
    Returned =>
        /\ Tag(result) = "date_sequence" => ~is_date(NonBlank(values)[1])
        /\ (DatesLead(values) /\ SearchReached(values)) => DateBlock(result)
        /\ (DatesLead(values) /\ ~SearchReached(values)) =>
              Tag(result) \in {"single", "uniform"}

\* dates first and a non-date among them: Repeating [<date>] with a break
C27_Witness ==
    /\ Returned
    /\ DatesLead(values)
    /\ SearchReached(values)
    /\ DateBlock(result)
    /\ Len(BreaksOf(result)) = 1
    /\ ~is_date(result.breaks[1].actual_values[1])

\* C28: every Repeating result has 1 <= block_size <= 10, repeat_count >=
\* 2, a template and a sample_first_block of block_size elements, and
\* block_size * repeat_count <= total_items < block_size * (repeat_count +
\* 1); every block size the search tries has at least 2 complete chunks, so
\* the skip at "fewer than 2 blocks" is never taken.
C28_Sizes ==
    Returned =>
        /\ Tag(result) = "repeating" =>
              /\ result.block_size \in 1..10
              /\ result.repeat_count >= 2
              /\ Len(result.template) = result.block_size
              /\ Len(result.sample_first_block) = result.block_size
              /\ result.block_size * result.repeat_count <= result.total_items
              /\ result.total_items
                    < result.block_size * (result.repeat_count + 1)
              /\ result.total_items = Len(NonBlank(values))
        /\ SearchReached(values) =>
              \A b \in BlockSizes(non_empty(values)) :
                  Len(Blocks(non_empty(values), b)) >= 2

\* the largest block size, found after the nine smaller sizes failed, with
\* the fewest chunks a size can have
C28_Witness ==
    /\ Returned
    /\ Tag(result) = "repeating"
    /\ result.block_size = 10
    /\ result.repeat_count = 2

\* the fields of a result that count the elements of the input
LengthFields(r) ==
    IF Tag(r) = "uniform" THEN {"count"}
    ELSE IF Tag(r) \in {"list", "varied"} THEN {"total"}
    ELSE {}

\* r and q differ at most in their length fields
SameButLength(r, q) ==
    /\ Tag(r) = Tag(q)
    /\ DOMAIN r = DOMAIN q
    /\ \A f \in DOMAIN r \ LengthFields(r) : r[f] = q[f]

\* C30: the blank elements of an input with a non-blank value do not
\* matter: the result has the type tag and, but for Uniform.count,
\* List.total and Varied.total, the fields of the result for the input
\* with all its null and empty-string elements removed; so inputs that
\* differ by inserted or removed blanks get the same tag and the same
\* fields, and Single, Repeating, DateSequence and VariedWithPrefix results
\* are identical.
C30_BlankInsensitive ==
    (Returned /\ NonBlankIdx(values) # {}) =>
        LET base == detect_pattern(NonBlank(values))
        IN  /\ SameButLength(result, base)
            /\ Tag(result) \in {"single", "repeating", "date_sequence",
                                 "varied_with_prefix"} => result = base
            /\ \A f \in LengthFields(result) :
                  result[f] = Len(values) /\ base[f] = Len(NonBlank(values))

\* a Repeating result with a break for an input with a null element in
\* front of the break and another inside the first chunks
C30_Witness ==
    /\ Returned
    /\ Tag(result) = "repeating"
    /\ Len(BreaksOf(result)) = 1
    /\ Len(values) >= Len(NonBlank(values)) + 2
    /\ values[1] # Null
    /\ result = detect_pattern(NonBlank(values))

----------------------------------------------------------------------------
(* Properties of the formula analysis, checked under SpecFormula.  Rows    *)
(* are numbered from 1 here, as in the emitted flow.                       *)

Scanned   == fpc \in {"flow", "done"}
FlowDone  == fpc = "done" /\ FlowBuilt(row_data, col_idx, start_row)

\* row r (1-based) carries a formula in the analysed column
Carries(r) ==
    /\ r \in 1..Len(row_data)
    /\ "values" \in DOMAIN row_data[r]
    /\ Len(row_data[r].values) > col_idx
    /\ "userEnteredValue" \in DOMAIN row_data[r].values[col_idx + 1]
    /\ "formulaValue" \in
          DOMAIN row_data[r].values[col_idx + 1].userEnteredValue
    /\ row_data[r].values[col_idx + 1].userEnteredValue.formulaValue # <<>>

\* the signature of the formula of row r (1-based)
Signature(r) ==
    normalize_formula(row_data[r].values[col_idx + 1].userEnteredValue.formulaValue)

\* formulas of one signature at rows 1-5, none at row 6, formulas of
\* another signature at rows 7-8
GapExample ==
    /\ Len(row_data) = 8
    /\ \A r \in (1..5) \cup (7..8) : Carries(r)
    /\ ~Carries(6)
    /\ \A r \in 1..5 : Signature(r) = Signature(1)
    /\ Signature(8) = Signature(7)
    /\ Signature(7) # Signature(1)

\* C8 (as claimed): on such a column there are exactly two ranges and the
\* first flow entry has break_after = TRUE, continues_at_row = 7,
\* break_size = 0.
C8_FlowExampleClaimed ==
    (FlowDone /\ GapExample) =>
        /\ Len(ranges) = 2
        /\ Len(formula_flow) = 2
        /\ "break_after" \in DOMAIN formula_flow[1]
        /\ formula_flow[1].break_after = TRUE
        /\ formula_flow[1].continues_at_row = 7
        /\ formula_flow[1].break_size = 0

\* C8 (amended): on such a column there are exactly two ranges and the
\* first flow entry has break_after = TRUE, continues_at_row = 7 and
\* break_size = 1, the one formula-less row 6 between row 5 and row 7.
C8_FlowExample ==
    (FlowDone /\ GapExample) =>
        /\ Len(ranges) = 2
        /\ Len(formula_flow) = 2
        /\ formula_flow[1].end_row = 5
        /\ "break_after" \in DOMAIN formula_flow[1]
        /\ formula_flow[1].break_after = TRUE
        /\ formula_flow[1].continues_at_row = 7
        /\ formula_flow[1].break_size = 1
        /\ formula_flow[2].start_row = 7
        /\ formula_flow[2].end_row = 8

C8_Witness ==
    /\ FlowDone
    /\ GapExample
    /\ start_row = 0
    /\ formula_flow[1].start_row = 1

\* the rows end+1 .. end+9 of the grid (1-based) that carry a formula
Resumptions(end) ==
    {r \in (end + 1)..(end + 9) : r <= Len(row_data) /\ Carries(r)}

\* C9: for every flow entry, if one of the rows end_row+1 .. end_row+9 of
\* the grid carries a formula, the entry has break_after = TRUE,
\* continues_at_row = the first such row and break_size =
\* continues_at_row - end_row - 1, the number of formula-less rows strictly
\* between end_row and the resumption.
C9_FlowAnnotation ==
    FlowDone =>
        \A k \in 1..Len(formula_flow) :
            LET e == formula_flow[k]
                hits == Resumptions(e.end_row)
            IN  hits # {} =>
                  /\ {"break_after", "continues_at_row", "break_size"}
                        \subseteq DOMAIN e
                  /\ e.break_after = TRUE
                  /\ e.continues_at_row = Least(hits)
                  /\ e.break_size = e.continues_at_row - e.end_row - 1
                  /\ e.break_size =
                        Cardinality({r \in (e.end_row + 1)..(e.continues_at_row - 1) :
                                        ~Carries(r)})

\* a resumption found in the last row of the look-ahead window
C9_Witness ==
    /\ FlowDone
    /\ \E k \in 1..Len(formula_flow) :
          /\ "break_size" \in DOMAIN formula_flow[k]
          /\ formula_flow[k].break_size = 8
          /\ formula_flow[k].continues_at_row = formula_flow[k].end_row + 9

\* C10: every emitted range is a maximal run: its rows all carry a formula
\* that normalizes to the range's pattern, two adjacent consecutive ranges
\* have different patterns, and the row before it (from the scan start on)
\* and the row after it carry no formula or one of another signature.
C10_MaximalRuns ==
    Scanned =>
        \A k \in 1..Len(ranges) :
            LET first == ranges[k].start_row + 1
                last  == ranges[k].end_row + 1
            IN  /\ start_row + 1 <= first
                /\ first <= last
                /\ last <= Len(row_data)
                /\ \A r \in first..last :
                      Carries(r) /\ Signature(r) = ranges[k].pattern
                /\ (k < Len(ranges) /\ ranges[k + 1].start_row + 1 = last + 1)
                      => ranges[k + 1].pattern # ranges[k].pattern
                /\ (first - 1 >= start_row + 1 /\ Carries(first - 1))
                      => Signature(first - 1) # ranges[k].pattern
                /\ Carries(last + 1)
                      => Signature(last + 1) # ranges[k].pattern

\* two adjacent ranges, the first covering rows of different formula text
C10_Witness ==
    /\ Scanned
    /\ \E k \in 1..(Len(ranges) - 1) :
          /\ ranges[k + 1].start_row = ranges[k].end_row + 1
          /\ ranges[k].end_row > ranges[k].start_row
          /\ Len(ranges[k].formulas) >= 2
          /\ ranges[k].formulas[1] # ranges[k].formulas[2]

BreakKeys == {"break_after", "continues_at_row", "break_size"}

\* C14: for every flow entry, if none of the rows end_row+1 .. end_row+9 of
\* the grid carries a formula, the entry has none of the keys break_after,
\* continues_at_row, break_size; so it is for the last range and for a
\* range whose successor starts beyond these nine rows.
C14_NoResumption ==
    FlowDone =>
        \A k \in 1..Len(formula_flow) :
            Resumptions(formula_flow[k].end_row) = {}
                => DOMAIN formula_flow[k] \cap BreakKeys = {}

\* a range followed by nine formula-less rows and then by another range:
\* neither its entry nor the last one is annotated
C14_Witness ==
    /\ FlowDone
    /\ Len(formula_flow) = 2
    /\ formula_flow[2].start_row = formula_flow[1].end_row + 10
    /\ Resumptions(formula_flow[1].end_row) = {}
    /\ DOMAIN formula_flow[1] \cap BreakKeys = {}
    /\ DOMAIN formula_flow[2] \cap BreakKeys = {}

RangeKeys == {"start_row", "end_row", "pattern", "first_formula",
              "formula_count", "formulas"}

\* the rows (1-based) from the scan start on that carry a formula
ScannedFormulaRows ==
    {r \in (start_row + 1)..Len(row_data) : Carries(r)}

\* the rows (1-based) of range k
RowsOf(k) == (ranges[k].start_row + 1)..(ranges[k].end_row + 1)

\* C18: for every grid (rows without values, rows shorter than the column
\* index, cells without userEnteredValue, empty formula strings, the empty
\* grid, a start row at or beyond the grid length) analyze_formula_ranges
\* returns a list of range dicts, and the list is empty when no scanned
\* row carries a formula.
C18_ScanTotal ==
    Scanned =>
        /\ DOMAIN ranges = 1..Len(ranges)
        /\ \A k \in 1..Len(ranges) :
              /\ DOMAIN ranges[k] = RangeKeys
              /\ ranges[k].first_formula # <<>>
              /\ ranges[k].formula_count >= 1
        /\ ScannedFormulaRows = {} => ranges = <<>>

\* a grid of a row without values, a row shorter than the column index
\* and a row whose cell holds the empty formula string
C18_Witness ==
    /\ Scanned
    /\ row_data = <<NoValuesRow, ShortRow, RowOf(BlankFormulaCell)>>
    /\ col_idx = 1
    /\ start_row = 0
    /\ ranges = <<>>

\* C19: every row from start_row on that carries a formula lies in exactly
\* one emitted range (the range still open at the end of the scan is
\* emitted), no emitted range contains a row below start_row or a row
\* without a formula, and the ranges are in strictly increasing,
\* non-overlapping row order.
C19_Complete ==
    Scanned =>
        /\ \A r \in ScannedFormulaRows :
              Cardinality({k \in 1..Len(ranges) : r \in RowsOf(k)}) = 1
        /\ \A k \in 1..Len(ranges) :
              /\ RowsOf(k) # {}
              /\ RowsOf(k) \subseteq ScannedFormulaRows
        /\ \A k \in 1..(Len(ranges) - 1) :
              ranges[k].end_row < ranges[k + 1].start_row

\* a scan from row 1 over a grid whose row 0 and last row carry a formula:
\* row 0 is in no range, the last row is in the range open at the end
C19_Witness ==
    /\ Scanned
    /\ start_row = 1
    /\ Carries(1)
    /\ Len(ranges) >= 2
    /\ ranges[1].start_row >= 1
    /\ ranges[Len(ranges)].end_row = Len(row_data) - 1
    /\ Carries(Len(row_data))

\* C20: the emitted rows are 1-based: the flow entry of the range over the
\* 0-based scan rows i..j has start_row = i + 1 and end_row = j + 1, which
\* are the 1-based rows of the range's first and last formula, and
\* continues_at_row is the 1-based number of the row where formulas resume.
C20_OneBased ==
    FlowDone =>
        /\ Len(formula_flow) = Len(ranges)
        /\ \A k \in 1..Len(formula_flow) :
              LET e == formula_flow[k]
              IN  /\ e.start_row = ranges[k].start_row + 1
                  /\ e.end_row = ranges[k].end_row + 1
                  /\ FormulaAt(row_data, col_idx, ranges[k].start_row)
                        = e.first_formula
                  /\ Carries(e.start_row)
                  /\ row_data[e.start_row].values[col_idx + 1]
                        .userEnteredValue.formulaValue = e.first_formula
                  /\ Carries(e.end_row)
                  /\ "continues_at_row" \in DOMAIN e =>
                        /\ Carries(e.continues_at_row)
                        /\ \A r \in (e.end_row + 1)..(e.continues_at_row - 1) :
                              ~Carries(r)

\* a range that starts in scan row 0 and resumes after a gap
C20_Witness ==
    /\ FlowDone
    /\ ranges[1].start_row = 0
    /\ formula_flow[1].start_row = 1
    /\ "continues_at_row" \in DOMAIN formula_flow[1]
    /\ formula_flow[1].break_size >= 1
    /\ formula_flow[1].continues_at_row = formula_flow[2].start_row

\* the formula text of row r (1-based)
FormulaText(r) ==
    row_data[r].values[col_idx + 1].userEnteredValue.formulaValue

\* C23: for every emitted range, formulas holds the formulas of the first
\* min(3, formula_count) rows of the run in row order, never more than 3,
\* and first_formula is formulas[0], the formula of the row start_row.
C23_Examples ==
    Scanned =>
        \A k \in 1..Len(ranges) :
            LET r == ranges[k]
            IN  /\ Len(r.formulas) = Min(3, r.formula_count)
                /\ Len(r.formulas) <= 3
                /\ \A j \in 1..Len(r.formulas) :
                      /\ Carries(r.start_row + j)
                      /\ r.formulas[j] = FormulaText(r.start_row + j)
                /\ r.first_formula = r.formulas[1]
                /\ r.first_formula = FormulaText(r.start_row + 1)

\* a run of five rows whose formula texts differ from row to row
C23_Witness ==
    /\ Scanned
    /\ \E k \in 1..Len(ranges) :
          /\ ranges[k].formula_count = 5
          /\ Len(ranges[k].formulas) = 3
          /\ ranges[k].formulas[1] # ranges[k].formulas[2]
          /\ ranges[k].formulas[3] = ranges[k].first_formula

\* C25: for every emitted range formula_count = end_row - start_row + 1
\* and formula_count >= 1: the range spans no formula-less row, so its
\* formulas are as many as its rows.
C25_CountIsSpan ==
    Scanned =>
        \A k \in 1..Len(ranges) :
            /\ ranges[k].formula_count
                  = ranges[k].end_row - ranges[k].start_row + 1
            /\ ranges[k].formula_count >= 1
            /\ ranges[k].formula_count
                  = Cardinality({r \in RowsOf(k) : Carries(r)})

\* a range of several rows that starts after a gap in the column
C25_Witness ==
    /\ Scanned
    /\ \E k \in 1..Len(ranges) :
          /\ ranges[k].formula_count >= 4
          /\ ranges[k].start_row > start_row
          /\ ~Carries(ranges[k].start_row)
          /\ ranges[k].end_row < Len(row_data) - 1

Annotated(e) == "continues_at_row" \in DOMAIN e

\* C29: an annotated flow entry has a successor and its continues_at_row is
\* the successor's start_row; a non-final entry is annotated exactly when
\* the successor's start_row is at most end_row + 9; an entry whose
\* successor starts in the very next row (another signature, no gap) is
\* annotated with break_after = TRUE and break_size = 0; break_size is in
\* 0..8.
C29_FlowLinks ==
    FlowDone =>
        \A k \in 1..Len(formula_flow) :
            LET e == formula_flow[k]
            IN  /\ Annotated(e) =>
                      /\ k < Len(formula_flow)
                      /\ e.continues_at_row = formula_flow[k + 1].start_row
                      /\ e.break_after = TRUE
                      /\ e.break_size \in 0..8
                /\ k < Len(formula_flow) =>
                      /\ Annotated(e)
                            <=> formula_flow[k + 1].start_row <= e.end_row + 9
                      /\ formula_flow[k + 1].start_row = e.end_row + 1 =>
                            /\ Annotated(e)
                            /\ e.break_after = TRUE
                            /\ e.break_size = 0
                            /\ formula_flow[k + 1].pattern # e.pattern

\* two ranges of several rows, the second following the first without a
\* gap: the first is annotated with break_size 0, the last is not annotated
C29_Witness ==
    /\ FlowDone
    /\ Len(formula_flow) = 2
    /\ formula_flow[1].row_count >= 2
    /\ formula_flow[2].row_count >= 2
    /\ formula_flow[2].start_row = formula_flow[1].end_row + 1
    /\ Annotated(formula_flow[1])
    /\ formula_flow[1].break_size = 0
    /\ ~Annotated(formula_flow[2])

----------------------------------------------------------------------------
(* Properties of the scan loop of analyze_formula_ranges, checked under    *)
(* SpecScan                                                                *)

Looping == fpc = "loop"

\* the open slot holds nothing or one range, which ends at the row scanned
\* last and lies after every emitted range
OneOpenRange ==
    Looping =>
        \/ current_range = NoRange
        \/ /\ DOMAIN current_range = RangeKeys
           /\ current_range.end_row = row_idx - 1
           /\ \A k \in 1..Len(ranges) :
                 ranges[k].end_row < current_range.start_row

\* the row about to be scanned has no cell at the column
RowWithoutCell ==
    /\ Looping /\ row_idx < Len(row_data)
    /\ \/ "values" \notin DOMAIN row_data[row_idx + 1]
       \/ Len(row_data[row_idx + 1].values) <= col_idx

\* the row about to be scanned has a cell at the column, without a formula
CellWithoutFormula ==
    /\ Looping /\ row_idx < Len(row_data)
    /\ ~RowWithoutCell
    /\ ~Carries(row_idx + 1)

\* the open range, if any, is closed and emitted; else nothing changes
ClosesOpenRange ==
    IF current_range # NoRange
    THEN ranges' = Append(ranges, current_range) /\ current_range' = NoRange
    ELSE ranges' = ranges /\ current_range' = current_range

\* C22: at every step of the scan at most one range is open; a row with no
\* cell at the column and a row whose cell has no formula both close and
\* emit the open range if there is one and change nothing otherwise; the
\* emitted list changes only by having one range appended.
C22_ScanProtocol ==
    [][/\ OneOpenRange /\ OneOpenRange'
       /\ RowWithoutCell => ClosesOpenRange
       /\ CellWithoutFormula => ClosesOpenRange
       /\ \/ ranges' = ranges
          \/ /\ Len(ranges') = Len(ranges) + 1
             /\ SubSeq(ranges', 1, Len(ranges)) = ranges]_vars

\* a range of two rows was open when a row without values was scanned: it
\* is emitted and the slot is empty
C22_Witness ==
    /\ Looping
    /\ row_idx >= 3
    /\ row_data[row_idx] = NoValuesRow
    /\ current_range = NoRange
    /\ Len(ranges) >= 1
    /\ ranges[Len(ranges)].end_row = row_idx - 2
    /\ ranges[Len(ranges)].formula_count = 2

----------------------------------------------------------------------------
(* Properties of normalize_formula, checked under SpecNormalize *)

PassKinds == {"abs", "col_abs", "row_abs", "rel"}

\* the order of the four re.sub calls of normalize_formula
CodeOrder == <<"abs", "col_abs", "row_abs", "rel">>

TagOf(kind) ==
    IF kind = "abs" THEN AbsTag
    ELSE IF kind = "col_abs" THEN ColAbsTag
    ELSE IF kind = "row_abs" THEN RowAbsTag
    ELSE RelTag

\* one pass over s, its matches replaced by repl
Sub(s, kind, repl) ==
    ReSub(s, 1, kind \in {"abs", "col_abs"}, kind \in {"abs", "row_abs"}, repl)

\* the four passes in the given order, each writing its own placeholder
NormalizeInOrder(f, order) ==
    IF ~Truthy(f) THEN <<>>
    ELSE LET p1 == Sub(f, order[1], TagOf(order[1]))
             p2 == Sub(p1, order[2], TagOf(order[2]))
             p3 == Sub(p2, order[3], TagOf(order[3]))
         IN  Sub(p3, order[4], TagOf(order[4]))

\* the passes in the code's order, each placeholder written as one opaque
\* item that no pattern can match or look into
Opaque(f) ==
    IF ~Truthy(f) THEN <<>>
    ELSE LET p1 == Sub(f, CodeOrder[1], <<CodeOrder[1]>>)
             p2 == Sub(p1, CodeOrder[2], <<CodeOrder[2]>>)
             p3 == Sub(p2, CodeOrder[3], <<CodeOrder[3]>>)
         IN  Sub(p3, CodeOrder[4], <<CodeOrder[4]>>)

\* the text of a sequence of characters and opaque placeholders
RECURSIVE Flatten(_)
Flatten(items) ==
    IF items = <<>> THEN <<>>
    ELSE (IF Head(items) \in PassKinds THEN TagOf(Head(items))
          ELSE <<Head(items)>>) \o Flatten(Tail(items))

\* the kinds of the placeholders a normalization wrote, left to right
Placeholders(f) == SelectSeq(Opaque(f), LAMBDA x : x \in PassKinds)

SigAbsRel    == <<"=">> \o AbsTag \o <<"+">> \o RelTag
SigRelColAbs == <<"=">> \o RelTag \o <<"+">> \o ColAbsTag

\* C11: normalize_formula replaces, in the fixed order fully absolute,
\* column-absolute, row-absolute, relative, and no pass matches text of a
\* placeholder an earlier pass wrote: the signature is the text obtained
\* when every placeholder is an opaque item the later passes cannot match.
\* "=$A$1+B2" gives "={ABS}+{REL}" and "=A1+$B1" gives "={REL}+{COL_ABS}".
C11_PlaceholdersSurvive ==
    nruns = 1 =>
        /\ signature = Flatten(Opaque(formula_text))
        /\ formula_text = FAbsRel => signature = SigAbsRel
        /\ formula_text = FRelColAbs => signature = SigRelColAbs

\* a formula in which the first pass and the last each wrote a placeholder,
\* and the first one's is still there after the three later passes
C11_Witness ==
    /\ nruns = 1
    /\ Placeholders(formula_text) = <<"abs", "rel">>
    /\ signature = Flatten(Opaque(formula_text))

\* the 24 orders in which the four passes can run
Orders ==
    {o \in [1..4 -> PassKinds] : \A i, j \in 1..4 : o[i] = o[j] => i = j}

Position(order, kind) == CHOOSE i \in 1..4 : order[i] = kind

Before(order, k1, k2) == Position(order, k1) < Position(order, k2)

\* the orders that try a pattern before the pattern its matches contain:
\* \$[A-Z]+\$\d+ before [A-Z]+\$\d+, and \$[A-Z]+\d+ before [A-Z]+\d+
SafeOrders ==
    {o \in Orders : Before(o, "abs", "row_abs") /\ Before(o, "col_abs", "rel")}

FColAbs == <<"$", "A", "1">>
FAbsOnly == <<"$", "A", "$", "1">>

\* C12 as claimed: applying the four substitution passes in any order
\* yields the same signature for every formula.
C12_OrderIndependentClaimed ==
    nruns = 1 =>
        \A o \in Orders : NormalizeInOrder(formula_text, o) = signature

\* C12: the passes are order-sensitive.  Every order that runs the fully
\* absolute pass before the row-absolute pass and the column-absolute pass
\* before the relative pass (six orders, the code's among them) yields the
\* code's signature for every formula; every other order changes the
\* signature of "$A$1" (row-absolute first: "${ROW_ABS}") or of "$A1"
\* (relative first: "${REL}").
C12_OrderSensitive ==
    nruns = 1 =>
        /\ CodeOrder \in SafeOrders
        /\ \A o \in SafeOrders : NormalizeInOrder(formula_text, o) = signature
        /\ formula_text = FAbsOnly =>
              \A o \in Orders : Before(o, "row_abs", "abs") =>
                  NormalizeInOrder(formula_text, o) # signature
        /\ formula_text = FColAbs =>
              \A o \in Orders : Before(o, "rel", "col_abs") =>
                  NormalizeInOrder(formula_text, o) # signature

\* a formula with a column-absolute and a row-absolute reference, whose
\* signature is the same with these two passes exchanged
C12_Witness ==
    /\ nruns = 1
    /\ Placeholders(formula_text) = <<"col_abs", "row_abs">>
    /\ NormalizeInOrder(formula_text, <<"abs", "row_abs", "col_abs", "rel">>)
          = signature
    /\ signature = ColAbsTag \o RowAbsTag

\* C13: normalization is idempotent: normalizing a signature returns that
\* signature, normalize(normalize(f)) = normalize(f).
C13_Idempotent ==
    nruns = 2 => signature = normalize_formula(formula_text)

\* a formula with two references that the first call rewrote and the second
\* call was applied to
C13_Witness ==
    /\ nruns = 2
    /\ Len(Placeholders(formula_text)) >= 2
    /\ signature # formula_text
    /\ signature = Flatten(Opaque(formula_text))

============================================================================
